---- MODULE Spec2Model ----
(***************************************************************************)
(* A model of btrfs-fuzz: the chunk-tree cache (imgcompress/chunk_tree.rs), *)
(* the runner loop and its forkserver shim (runner/main.rs,                *)
(* runner/forkserver.rs), the image codec (imgcompress/lib.rs,             *)
(* imgcompress/btrfs.rs, imgcompress/tree.rs) and the AFL++ custom mutator *)
(* (mutator/lib.rs).                                                       *)
(*                                                                         *)
(* Seven specifications share the module:                                   *)
(*   SpecCTC     - ChunkTreeCache built by a sequence of insert() calls    *)
(*   SpecRunner  - _main's loop, one action per function it calls          *)
(*   SpecCodec   - Btrfs::new, Btrfs::compress, the fuzzer's change of the *)
(*                 data payload, and decompress                            *)
(*   SpecMutator - afl_custom_fuzz called on one buffer after another      *)
(*   SpecFold    - _main's fold of kcov traces into the edge bitmap        *)
(*   SpecMounter - Mounter::mount, Mount::drop and Mounter::drop called by *)
(*                 one process on one loop device (runner/mount.rs)        *)
(*   SpecTestcase - the parent and the child it forks for each testcase,   *)
(*                 with the loop device, kcov and /dev/kmsg between them   *)
(* Each specification leaves the variables of the others untouched.        *)
(***************************************************************************)
EXTENDS Integers, Sequences, FiniteSets, TLC

VARIABLES
    chunk_tree_cache,   \* ChunkTreeCache.inner: Seq of [start, size, offset]
    panicked,           \* TRUE once a panic!() has ended the process
    ctcLast,            \* the last insert() call: its arguments and whether it returned
    \* ---- runner (runner/main.rs, runner/forkserver.rs) ----
    env,                \* command line, environment and known-crash directory
    pc,                 \* where _main is
    fs_disabled,        \* Forkserver.disabled
    shared_mem,         \* Forkserver.shared_mem: "Shm", "Anon", "none" before new()
    known_crashes,      \* the hashes load_known_crashes returned
    count,              \* _main's `count`
    runs,               \* iterations of the loop started so far
    io,                 \* every read(198) / write(199) so far, in order
    calls,              \* every new_run() / report() call so far, in order
    input,              \* the buffer get_next_testcase read from stdin
    tc,                 \* what get_next_testcase returned
    child,              \* what fork_work_and_wait saw: wait status, kmsg scan
    status,             \* the RunStatus fork_work_and_wait returned
    trace,              \* side effects of the current iteration, in order
    result,             \* what _main returned: "running", "ok", "err", "panic"
    exit_code,          \* how the parent process ended
    ring,               \* the files of --current-dir, and every input persisted so far
    \* ---- image codec (imgcompress/lib.rs, imgcompress/btrfs.rs) ----
    img,                \* the image handed to compress()
    orig,               \* the image mkfs wrote, before anything was corrupted
    cpc,                \* where the codec is
    cres,               \* how Btrfs::new / Btrfs::compress ended
    compressed,         \* the CompressedBtrfsImage in hand
    source,             \* where `compressed` came from: compress() or a file
    scribbles,          \* the indices of `data` overwritten after it was built
    decompressed,       \* what decompress() returned
    \* ---- custom mutator (mutator/src/lib.rs) ----
    in_buf,             \* afl_custom_fuzz's buf[0..buf_size]
    max_size,           \* afl_custom_fuzz's max_size
    out_buf,            \* what afl_custom_fuzz wrote to *out_buf
    fuzz_ret,           \* the size afl_custom_fuzz returned
    fuzz_buf,           \* Mutator.fuzz_buf
    engine_ran,         \* the last call invoked MutatorEngine::mutate
    seed_buf,           \* the first buffer AFL handed to the mutator
    mutations,          \* calls of afl_custom_fuzz so far
    mpc,                \* where the mutator is
    \* ---- edge bitmap (runner/main.rs, the fold of the kcov trace) ----
    shmem,              \* Forkserver::shmem(): the bytes of the edge bitmap
    kcov,               \* the kcov buffer of the last testcase folded
    folds,              \* testcases folded so far
    \* ---- mount harness (runner/mount.rs) ----
    mounter,            \* Mounter.attached, the loop device, the mount, the calls made
    mlife,              \* the process owning the Mounter: "alive", "panicking", ...
    mcalls,             \* calls of Mounter::mount so far
    \* ---- one testcase after another, parent and child (runner/main.rs) ----
    ppc,                \* where the parent is
    child_pc,           \* where the forked child is, "none" when there is none
    flags,              \* Mounter.attached in the parent's and the child's memory
    kernel,             \* the loop device, the mount and kcov's task binding
    cover,              \* the kcov buffer shared by kernel, parent and child
    kmsg,               \* /dev/kmsg: the log and the read position of the open file
    events,             \* what parent and child did for the current testcase, in order
    tcase,              \* the number of the current testcase
    wstatus             \* how the child ended, and what waitpid returned

ctcVars == <<chunk_tree_cache, panicked, ctcLast>>

runnerVars == <<env, pc, fs_disabled, shared_mem, known_crashes, count, runs, io, calls,
                input, tc, child, status, trace, result, exit_code, ring>>

codecVars == <<img, orig, cpc, cres, compressed, source, scribbles, decompressed>>

mutatorVars == <<in_buf, max_size, out_buf, fuzz_ret, fuzz_buf, engine_ran,
                 seed_buf, mutations, mpc>>

foldVars == <<shmem, kcov, folds>>

mounterVars == <<mounter, mlife, mcalls>>

testcaseVars == <<ppc, child_pc, flags, kernel, cover, kmsg, events, tcase, wstatus>>

vars == <<ctcVars, runnerVars, codecVars, mutatorVars, foldVars, mounterVars,
          testcaseVars>>

\* What the actions of one specification leave alone. The codec owns a
\* ChunkTreeCache, so its actions change chunk_tree_cache and panicked.
notCtc == <<runnerVars, codecVars, mutatorVars, foldVars, mounterVars, testcaseVars>>
notRunner == <<ctcVars, codecVars, mutatorVars, foldVars, mounterVars, testcaseVars>>
notCodec == <<ctcLast, runnerVars, mutatorVars, foldVars, mounterVars, testcaseVars>>
notMutator == <<ctcVars, runnerVars, codecVars, foldVars, mounterVars, testcaseVars>>
notFold == <<ctcVars, runnerVars, codecVars, mutatorVars, mounterVars, testcaseVars>>
notMounter == <<ctcVars, runnerVars, codecVars, mutatorVars, foldVars, testcaseVars>>
notTestcase == <<ctcVars, runnerVars, codecVars, mutatorVars, foldVars, mounterVars>>

----------------------------------------------------------------------------
(* Option<T> *)
None == [some |-> FALSE]
Some(v) == [some |-> TRUE, val |-> v]

----------------------------------------------------------------------------
(***************************************************************************)
(* imgcompress/chunk_tree.rs                                               *)
(***************************************************************************)

\* Bounds of the cache explored by SpecCTC.
MaxStart == 3
MaxSize == 2
MaxEntries == 3
CtcOffsets == {10, 20}

ChunkTreeKey(start, size) == [start |-> start, size |-> size]

CtcEntry(start, size, offset) == [start |-> start, size |-> size, offset |-> offset]

\* chunk_tree.rs:44-54. The two disjuncts of the code, with its strict
\* comparisons: the new start strictly inside k, or the new end strictly inside k.
contains_overlapping(inner, key) ==
    \E i \in 1..Len(inner) :
        LET k == inner[i] IN
        \/ (key.start > k.start /\ key.start < k.start + k.size)
        \/ (key.start + key.size > k.start /\ key.start + key.size < k.start + k.size)

\* chunk_tree.rs:26-34: the first entry, in insertion order, whose range holds
\* `logical`.
mapping_kv(inner, logical) ==
    LET hits == {i \in 1..Len(inner) :
                    logical >= inner[i].start
                    /\ logical < inner[i].start + inner[i].size}
    IN IF hits = {} THEN None
       ELSE Some(inner[CHOOSE i \in hits : \A j \in hits : i <= j])

\* chunk_tree.rs:36-42
offset(inner, logical) ==
    LET kv == mapping_kv(inner, logical) IN
    IF kv.some THEN Some(kv.val.offset + (logical - kv.val.start)) ELSE None

\* chunk_tree.rs:18-24, the path that pushes.
CtcInsertOk(start, size, off) ==
    /\ ~panicked
    /\ Len(chunk_tree_cache) < MaxEntries
    /\ ~contains_overlapping(chunk_tree_cache, ChunkTreeKey(start, size))
    /\ chunk_tree_cache' = Append(chunk_tree_cache, CtcEntry(start, size, off))
    /\ ctcLast' = [called |-> TRUE, key |-> ChunkTreeKey(start, size), returned |-> TRUE]
    /\ UNCHANGED <<panicked, notCtc>>

\* chunk_tree.rs:19-21, the path that panics: the cache is not extended and the
\* process is gone.
CtcInsertPanic(start, size, off) ==
    /\ ~panicked
    /\ Len(chunk_tree_cache) < MaxEntries
    /\ contains_overlapping(chunk_tree_cache, ChunkTreeKey(start, size))
    /\ panicked' = TRUE
    /\ ctcLast' = [called |-> TRUE, key |-> ChunkTreeKey(start, size), returned |-> FALSE]
    /\ UNCHANGED <<chunk_tree_cache, notCtc>>

NoChild == [wait |-> [kind |-> "none", rc |-> 0], scanned |-> FALSE, lines |-> <<>>]

\* The runner's variables in the specifications that do not run it.
RunnerIdle ==
    /\ env = [shm_id |-> FALSE, no_forksrv |-> FALSE, current_dir |-> FALSE,
              last_n |-> 0, known_files |-> {}]
    /\ pc = "off"
    /\ fs_disabled = TRUE
    /\ shared_mem = "none"
    /\ known_crashes = {}
    /\ count = 0
    /\ runs = 0
    /\ io = <<>>
    /\ calls = <<>>
    /\ input = <<>>
    /\ tc = "none"
    /\ child = NoChild
    /\ status = "none"
    /\ trace = <<>>
    /\ result = "running"
    /\ exit_code = [kind |-> "none", code |-> 0]
    /\ ring = [files |-> <<>>, persisted |-> <<>>]

\* CompressedBtrfsImage::default() (lib.rs:33)
DefaultCompressed == [base |-> <<>>, metadata |-> <<>>, data |-> <<>>, node_size |-> 0]

NoOutput == [kind |-> "none", image |-> <<>>]

\* The codec's variables in the specifications that do not run it.
CodecIdle ==
    /\ img = <<>>
    /\ orig = <<>>
    /\ cpc = "off"
    /\ cres = "none"
    /\ compressed = DefaultCompressed
    /\ source = "none"
    /\ scribbles = <<>>
    /\ decompressed = NoOutput

\* A null pointer.
Null == [null |-> TRUE]

\* The mutator's variables in the specifications that do not run it.
MutatorIdle ==
    /\ in_buf = <<>>
    /\ max_size = 0
    /\ out_buf = Null
    /\ fuzz_ret = 0
    /\ fuzz_buf = <<>>
    /\ engine_ran = FALSE
    /\ seed_buf = <<>>
    /\ mutations = 0
    /\ mpc = "off"

\* The edge bitmap's variables in the specifications that do not fold.
FoldIdle ==
    /\ shmem = <<>>
    /\ kcov = <<>>
    /\ folds = 0

\* The mount harness's variables in the specifications that do not drive it.
MounterIdle ==
    /\ mounter = Null
    /\ mlife = "off"
    /\ mcalls = 0

\* The testcase processes' variables in the specifications without them.
TestcaseIdle ==
    /\ ppc = "off"
    /\ child_pc = "none"
    /\ flags = Null
    /\ kernel = Null
    /\ cover = Null
    /\ kmsg = Null
    /\ events = <<>>
    /\ tcase = 0
    /\ wstatus = Null

CtcInit ==
    /\ chunk_tree_cache = <<>>
    /\ panicked = FALSE
    /\ ctcLast = [called |-> FALSE]

CtcNext ==
    \E start \in 0..MaxStart, size \in 0..MaxSize, off \in CtcOffsets :
        \/ CtcInsertOk(start, size, off)
        \/ CtcInsertPanic(start, size, off)

InitCTC ==
    CtcInit /\ RunnerIdle /\ CodecIdle /\ MutatorIdle /\ FoldIdle
    /\ MounterIdle /\ TestcaseIdle

SpecCTC == InitCTC /\ [][CtcNext]_vars

\* Two ranges share at least one address.
SharesAddress(a, b) ==
    \E x \in a.start..(a.start + a.size - 1) :
        b.start <= x /\ x < b.start + b.size

\* The two ranges meet at a boundary: a.end == b.start or b.end == a.start.
Touches(a, b) ==
    \/ a.start + a.size = b.start
    \/ b.start + b.size = a.start

\* The entries the last insert() call found in the cache.
CtcBefore ==
    IF ctcLast.returned
    THEN SubSeq(chunk_tree_cache, 1, Len(chunk_tree_cache) - 1)
    ELSE chunk_tree_cache

\* C7 (as claimed): for every stored entry (start, size, stored_offset) and
\* every L with start <= L < start + size, offset(L) is
\* Some(stored_offset + (L - start)); and offset(L) is None for every L that
\* lies in no stored range (start + size itself included).
C7_OffsetFollowsEveryStoredRange ==
    /\ \A i \in 1..Len(chunk_tree_cache) :
          LET e == chunk_tree_cache[i] IN
          \A L \in e.start..(e.start + e.size - 1) :
              offset(chunk_tree_cache, L) = Some(e.offset + (L - e.start))
    /\ \A L \in 0..(MaxStart + MaxSize + 1) :
          (\A i \in 1..Len(chunk_tree_cache) :
              ~(chunk_tree_cache[i].start <= L
                /\ L < chunk_tree_cache[i].start + chunk_tree_cache[i].size))
          => offset(chunk_tree_cache, L) = None

\* C8 (as claimed): an insert() whose range shares an address with the range
\* of an existing entry (partial overlap, inside, equal, enclosing) is fatal
\* and does not extend the cache; an insert() of a non-empty range that only
\* touches existing ranges at a boundary returns.
C8_InsertRejectsEveryOverlap ==
    ctcLast.called =>
        /\ (\E i \in 1..Len(CtcBefore) : SharesAddress(ctcLast.key, CtcBefore[i]))
              => ~ctcLast.returned
        /\ ( /\ ctcLast.key.size > 0
             /\ \E i \in 1..Len(CtcBefore) : Touches(ctcLast.key, CtcBefore[i])
             /\ \A i \in 1..Len(CtcBefore) : ~SharesAddress(ctcLast.key, CtcBefore[i]) )
              => ctcLast.returned

----------------------------------------------------------------------------
(***************************************************************************)
(* runner/constants.rs, runner/forkserver.rs                               *)
(***************************************************************************)

\* A 32-bit word as its two 16-bit halves (TLC's integers are 32-bit signed).
Word32(hi, lo) == [hi |-> hi, lo |-> lo]

\* The word of a value below 2^31.
ToWord32(n) == Word32(n \div 65536, n % 65536)

AFL_MAP_SIZE == 65536
AFL_FS_OPT_ENABLED == Word32(32768, 1)
AFL_FS_OPT_MAPSIZE == Word32(16384, 0)
AFL_FORKSERVER_READ_FD == 198
AFL_FORKSERVER_WRITE_FD == AFL_FORKSERVER_READ_FD + 1
INT32_MAX == Word32(32767, 65535)

\* Bitwise or of two naturals.
RECURSIVE BitOr(_, _)
BitOr(a, b) ==
    IF a = 0 THEN b
    ELSE IF b = 0 THEN a
    ELSE (IF (a % 2 = 1) \/ (b % 2 = 1) THEN 1 ELSE 0) + 2 * BitOr(a \div 2, b \div 2)

\* a | b in u32
Or32(a, b) == Word32(BitOr(a.hi, b.hi), BitOr(a.lo, b.lo))

\* a << 1 in u32: the top bit is shifted out.
Shl1_32(a) == Word32((2 * a.hi + a.lo \div 32768) % 65536, (2 * a.lo) % 65536)

\* Mutant of forkserver_opt_set_mapsize: the size itself is shifted.
forkserver_opt_set_mapsize_NoDecrement(size) == Shl1_32(ToWord32(size))

\* forkserver.rs:85-88
forkserver_opt_set_mapsize(size) == Shl1_32(ToWord32(size - 1))

\* forkserver.rs:70-72
HelloWord ==
    Or32(Or32(AFL_FS_OPT_ENABLED, AFL_FS_OPT_MAPSIZE),
         forkserver_opt_set_mapsize(AFL_MAP_SIZE))

\* forkserver.rs:129-133
ReportWord(st) == IF st = "Success" THEN ToWord32(0) ELSE ToWord32(139)

\* What a read(2) or write(2) of 4 bytes can return: all 4 bytes, fewer, or -1.
IoResults == {4, 2, -1}

IoEvent(run, fd, ev, val, n) == [run |-> run, fd |-> fd, ev |-> ev, val |-> val, n |-> n]

----------------------------------------------------------------------------
(***************************************************************************)
(* runner/main.rs                                                          *)
(***************************************************************************)

\* Bound on the loop iterations explored.
MaxRuns == 2

\* stdin buffers and known-crash files: byte strings.
Inputs == {<<>>, <<1>>, <<2>>, <<1, 0>>}

\* std's DefaultHasher (SipHash, fixed keys) over the bytes written to it,
\* narrowed to two bits: a deterministic fold of every byte in order, under
\* which <<2>> and <<1, 0>> collide.
RECURSIVE HashFrom(_, _)
HashFrom(h, s) ==
    IF s = <<>> THEN h ELSE HashFrom((2 * h + Head(s)) % 4, Tail(s))

Hash(s) == HashFrom(0, s)

\* Mutant of is_known_crash: all() in place of any().
is_known_crash_All(buf, known) == \A x \in known : x = Hash(buf)

\* main.rs:137-143
is_known_crash(buf, known) == \E x \in known : x = Hash(buf)

\* main.rs:217-236: one hash per file of the directory.
load_known_crashes(files) == {Hash(f) : f \in files}

Envs ==
    [shm_id : BOOLEAN, no_forksrv : BOOLEAN, current_dir : BOOLEAN,
     last_n : {0, 1, 2}, known_files : {{}, {<<1>>}, {<<>>, <<2>>}}]

\* waitpid(child, None)
Exited(rc) == [kind |-> "Exited", rc |-> rc]
Signaled == [kind |-> "Signaled", rc |-> 0]
Stopped == [kind |-> "Stopped", rc |-> 0]
WaitErr == [kind |-> "Err", rc |-> 0]
EXIT_OK == 88
EXIT_BAD == 89
\* 88 after work(), 89 when kcov.enable() failed, 101 when the child panicked
\* (the unwrap()s of Mount's drop).
WaitResults == {Exited(EXIT_OK), Exited(EXIT_BAD), Exited(101), Signaled, Stopped, WaitErr}

\* /dev/kmsg entries a scan can read, by what the line contains.
KmsgLines == {"info", "BUG", "UBSAN:"}
KmsgLogs == {<<>>} \cup {<<l>> : l \in KmsgLines} \cup {<<"info", "BUG">>, <<"UBSAN:", "info">>}

\* main.rs:104-135, for a scan whose reads all succeeded: every entry is read,
\* found is set by a line containing "BUG" or "UBSAN:".
kmsg_contains_bug(lines) ==
    \E i \in 1..Len(lines) : lines[i] = "BUG" \/ lines[i] = "UBSAN:"

\* Mutant of ParentVerdict: an unclean exit code counts as a failing testcase
\* instead of a harness error.
ParentVerdict_UncleanIsFailure(found, res) ==
    IF found THEN "Success"
    ELSE IF res.kind = "Exited" THEN (IF res.rc # EXIT_OK THEN "Failure" ELSE "Success")
    ELSE IF res.kind = "Signaled" THEN "Failure"
    ELSE "bail"

\* main.rs:270-284: the parent's verdict from the kmsg scan and the wait status.
\* "bail" is the Err return.
ParentVerdict(found, res) ==
    IF found THEN "Success"
    ELSE IF res.kind = "Exited" THEN (IF res.rc # EXIT_OK THEN "bail" ELSE "Success")
    ELSE IF res.kind = "Signaled" THEN "Failure"
    ELSE "bail"

Effect(op, idx) == [op |-> op, idx |-> idx]

\* What the parent saw of the child: the wait status, whether the kmsg scan
\* completed, and the entries it read.
ChildSeen(res, scanned, lines) == [wait |-> res, scanned |-> scanned, lines |-> lines]

\* An Err propagated by `?` or bail!() out of _main's loop (or its set-up).
Fail ==
    /\ result' = "err"
    /\ pc' = "return"
    /\ UNCHANGED exit_code

\* A panic in the parent: the process ends with Rust's panic status, exit code
\* 101 when unwinding, SIGABRT (6) when built with panic=abort.
Panic ==
    /\ result' = "panic"
    /\ pc' = "exited"
    /\ \E how \in {[kind |-> "exit", code |-> 101], [kind |-> "signal", code |-> 6]} :
          exit_code' = how

Continue(next) ==
    /\ pc' = next
    /\ UNCHANGED <<result, exit_code>>

\* Mutant of Disabled: only AFL_NO_FORKSRV disables the forkserver.
Disabled_OnlyNoForksrv(e) == e.no_forksrv

\* forkserver.rs:41, 55: `disabled` once the environment has been read
Disabled(e) == e.no_forksrv \/ ~e.shm_id

\* forkserver.rs:44-64: shmat() of AFL's segment, or calloc() of a private one
SharedMem(e) == IF e.shm_id THEN "Shm" ELSE "Anon"

\* forkserver.rs:40-83. shmOk: the id parses and shmat() succeeds, or
\* calloc() does; the struct exists only when new() returns Ok.
ForkserverNew ==
    /\ pc = "forkserver_new"
    /\ \E shmOk \in BOOLEAN, w \in IoResults :
          IF ~shmOk
          THEN Fail /\ UNCHANGED <<fs_disabled, shared_mem, io>>
          ELSE IF Disabled(env)
          THEN /\ fs_disabled' = TRUE
               /\ shared_mem' = SharedMem(env)
               /\ Continue("setup")
               /\ UNCHANGED io
          ELSE /\ io' = Append(io, IoEvent(0, AFL_FORKSERVER_WRITE_FD, "hello", HelloWord, w))
               /\ IF w # 4
                  THEN Fail /\ UNCHANGED <<fs_disabled, shared_mem>>
                  ELSE /\ fs_disabled' = FALSE
                       /\ shared_mem' = SharedMem(env)
                       /\ Continue("setup")
    /\ UNCHANGED notRunner
    /\ UNCHANGED <<env, ring, known_crashes, count, runs, calls, input, tc, child, status, trace>>

\* main.rs:311-326: Kcov::new, open_kmsg, Mounter::new, load_known_crashes.
Setup ==
    /\ pc = "setup"
    /\ \E ok \in BOOLEAN :
          IF ok
          THEN known_crashes' = load_known_crashes(env.known_files) /\ Continue("new_run")
          ELSE Fail /\ UNCHANGED known_crashes
    /\ count' = 0
    /\ UNCHANGED notRunner
    /\ UNCHANGED <<env, ring, fs_disabled, shared_mem, runs, io, calls, input, tc, child, status, trace>>

\* forkserver.rs:101-122, called at main.rs:330
NewRun ==
    /\ pc = "new_run"
    /\ runs < MaxRuns
    /\ runs' = runs + 1
    /\ calls' = Append(calls, "new_run")
    /\ trace' = <<>>
    /\ IF fs_disabled
       THEN Continue("get_testcase") /\ UNCHANGED io
       ELSE \E r \in IoResults, w \in IoResults :
              LET rd == IoEvent(runs + 1, AFL_FORKSERVER_READ_FD, "was_killed", ToWord32(0), r)
                  wr == IoEvent(runs + 1, AFL_FORKSERVER_WRITE_FD, "fake_pid", INT32_MAX, w)
              IN IF r # 4
                 THEN io' = Append(io, rd) /\ Fail
                 ELSE /\ io' = Append(Append(io, rd), wr)
                      /\ IF w # 4 THEN Fail ELSE Continue("get_testcase")
    /\ UNCHANGED notRunner
    /\ UNCHANGED <<env, ring, fs_disabled, shared_mem, known_crashes, count, input, tc, child, status>>

\* What rmp_serde's from_read_ref and imgcompress::decompress make of a
\* non-empty buffer (main.rs:183-184): an image, an Err, or a panic (the
\* indexing of lib.rs:86-91 and lib.rs:134 past the end of the image or data).
DecodeOutcomes == {"ok", "deser_err", "decomp_err", "decomp_panic"}

\* main.rs:171 without the modulo
RingIndex_NoWrap(c, n) == c

\* main.rs:171: the name of the file, `count % last_n`
RingIndex(c, n) == c % n

\* main.rs:170-180: the file is created or truncated and the whole buffer
\* written to it. `persisted` lists every input written, with the counter it
\* had and the file it went to.
Persist(r, buf, c, n) ==
    [files |-> [j \in DOMAIN r.files \cup {RingIndex(c, n)} |->
                   IF j = RingIndex(c, n) THEN buf ELSE r.files[j]],
     persisted |-> Append(r.persisted, [buf |-> buf, c |-> c, file |-> RingIndex(c, n)])]

\* main.rs:148-196
GetNextTestcase ==
    /\ pc = "get_testcase"
    /\ \E buf \in Inputs, readOk \in BOOLEAN, openOk \in BOOLEAN,
          out \in DecodeOutcomes, writeOk \in BOOLEAN :
          LET persisted ==
                  IF env.current_dir
                  THEN Append(trace, Effect("persist", RingIndex(count, env.last_n)))
                  ELSE trace
              saved ==
                  IF env.current_dir
                  THEN Persist(ring, buf, count, env.last_n)
                  ELSE ring
          IN
          IF ~readOk
          THEN input' = <<>> /\ tc' = "ReadErr" /\ Fail /\ UNCHANGED <<trace, ring>>
          ELSE /\ input' = buf
               /\ IF buf = <<>>
                  THEN tc' = "NoMore" /\ UNCHANGED <<trace, ring>>
                       /\ result' = "ok" /\ pc' = "return" /\ UNCHANGED exit_code
                  ELSE IF is_known_crash(buf, known_crashes)
                  THEN tc' = "KnownCrash" /\ UNCHANGED <<trace, ring>>
                       /\ Continue("report_known")
                  ELSE IF env.current_dir /\ env.last_n = 0
                  THEN tc' = "Panic" /\ UNCHANGED <<trace, ring>> /\ Panic
                  ELSE IF env.current_dir /\ ~openOk
                  THEN tc' = "Err" /\ UNCHANGED <<trace, ring>> /\ Fail
                  ELSE IF out = "deser_err"
                  THEN tc' = "Err" /\ trace' = persisted /\ ring' = saved /\ Fail
                  ELSE IF out = "decomp_err"
                  THEN /\ tc' = "Err"
                       /\ trace' = Append(persisted, Effect("decompress", 0))
                       /\ ring' = saved
                       /\ Fail
                  ELSE IF out = "decomp_panic"
                  THEN /\ tc' = "Panic"
                       /\ trace' = Append(persisted, Effect("decompress", 0))
                       /\ ring' = saved
                       /\ Panic
                  ELSE IF ~writeOk
                  THEN /\ tc' = "Err"
                       /\ trace' = Append(persisted, Effect("decompress", 0))
                       /\ ring' = saved
                       /\ Fail
                  ELSE /\ tc' = "Ok"
                       /\ trace' = Append(Append(persisted, Effect("decompress", 0)),
                                          Effect("write_image", 0))
                       /\ ring' = saved
                       /\ Continue("reset")
    /\ UNCHANGED notRunner
    /\ UNCHANGED <<env, fs_disabled, shared_mem, known_crashes, count, runs, io, calls, child, status>>

\* main.rs:201-214, called at main.rs:349
ResetBtrfsDevices ==
    /\ pc = "reset"
    /\ \E ok \in BOOLEAN :
          IF ok
          THEN trace' = Append(trace, Effect("reset", 0)) /\ Continue("fork")
          ELSE Fail /\ UNCHANGED trace
    /\ UNCHANGED notRunner
    /\ UNCHANGED <<env, ring, fs_disabled, shared_mem, known_crashes, count, runs, io, calls, input, tc,
                   child, status>>

\* main.rs:256-303, the parent's side; the child ends inside it.
ForkWorkAndWait ==
    /\ pc = "fork"
    /\ \E forkOk \in BOOLEAN, res \in WaitResults, lines \in KmsgLogs, kmsgOk \in BOOLEAN :
          IF ~forkOk
          THEN Fail /\ UNCHANGED <<child, status, trace>>
          ELSE /\ trace' = Append(trace, Effect("fork", 0))
               /\ IF res = WaitErr
                  THEN child' = ChildSeen(res, FALSE, <<>>) /\ status' = "none" /\ Fail
                  ELSE IF ~kmsgOk
                  THEN child' = ChildSeen(res, FALSE, lines) /\ status' = "none" /\ Fail
                  ELSE /\ child' = ChildSeen(res, TRUE, lines)
                       /\ LET v == ParentVerdict(kmsg_contains_bug(lines), res) IN
                          IF v = "bail"
                          THEN status' = "none" /\ Fail
                          ELSE status' = v /\ Continue("fold")
    /\ UNCHANGED notRunner
    /\ UNCHANGED <<env, ring, fs_disabled, shared_mem, known_crashes, count, runs, io, calls, input, tc>>

\* main.rs:355-384
Fold ==
    /\ pc = "fold"
    /\ trace' = Append(trace, Effect("fold", 0))
    /\ Continue("report")
    /\ UNCHANGED notRunner
    /\ UNCHANGED <<env, ring, fs_disabled, shared_mem, known_crashes, count, runs, io, calls, input, tc,
                   child, status>>

\* Mutant of Report: the number of bytes write() transferred is not looked
\* at.
Report_AnyLength(st) ==
    /\ calls' = Append(calls, "report")
    /\ IF fs_disabled
       THEN Continue("new_run") /\ UNCHANGED io
       ELSE \E w \in IoResults :
              /\ io' = Append(io, IoEvent(runs, AFL_FORKSERVER_WRITE_FD, "status",
                                          ReportWord(st), w))
              /\ Continue("new_run")

\* forkserver.rs:124-140
Report(st) ==
    /\ calls' = Append(calls, "report")
    /\ IF fs_disabled
       THEN Continue("new_run") /\ UNCHANGED io
       ELSE \E w \in IoResults :
              /\ io' = Append(io, IoEvent(runs, AFL_FORKSERVER_WRITE_FD, "status",
                                          ReportWord(st), w))
              /\ IF w # 4 THEN Fail ELSE Continue("new_run")

\* Mutant of ReportKnownCrash: `continue` without the report.
ReportKnownCrash_Silent ==
    /\ pc = "report_known"
    /\ Continue("new_run")
    /\ UNCHANGED notRunner
    /\ UNCHANGED <<env, ring, fs_disabled, shared_mem, known_crashes, count, runs, io, calls, input, tc,
                   child, status, trace>>

\* main.rs:342-345
ReportKnownCrash ==
    /\ pc = "report_known"
    /\ Report("Failure")
    /\ UNCHANGED notRunner
    /\ UNCHANGED <<env, ring, fs_disabled, shared_mem, known_crashes, count, runs, input, tc, child,
                   status, trace>>

\* main.rs:387-389
ReportStatus ==
    /\ pc = "report"
    /\ Report(status)
    /\ count' = IF pc' = "new_run" THEN count + 1 ELSE count
    /\ UNCHANGED notRunner
    /\ UNCHANGED <<env, ring, fs_disabled, shared_mem, known_crashes, runs, input, tc, child, status, trace>>

\* main.rs:395-403. _main's locals (Mounter, Kcov, Forkserver) are dropped when
\* it returns; their teardown calls on valid handles are taken to succeed.
MainExit ==
    /\ pc = "return"
    /\ pc' = "exited"
    /\ exit_code' = [kind |-> "exit", code |-> IF result = "ok" THEN 0 ELSE 1]
    /\ UNCHANGED notRunner
    /\ UNCHANGED <<env, ring, fs_disabled, shared_mem, known_crashes, count, runs, io, calls, input, tc,
                   child, status, trace, result>>

RunnerInit ==
    /\ env \in Envs
    /\ pc = "forkserver_new"
    /\ fs_disabled = TRUE
    /\ shared_mem = "none"
    /\ known_crashes = {}
    /\ count = 0
    /\ runs = 0
    /\ io = <<>>
    /\ calls = <<>>
    /\ input = <<>>
    /\ tc = "none"
    /\ child = NoChild
    /\ status = "none"
    /\ trace = <<>>
    /\ result = "running"
    /\ exit_code = [kind |-> "none", code |-> 0]
    /\ ring = [files |-> <<>>, persisted |-> <<>>]

RunnerNext ==
    \/ ForkserverNew
    \/ Setup
    \/ NewRun
    \/ GetNextTestcase
    \/ ResetBtrfsDevices
    \/ ForkWorkAndWait
    \/ Fold
    \/ ReportKnownCrash
    \/ ReportStatus
    \/ MainExit

InitRunner ==
    RunnerInit /\ CtcInit /\ CodecIdle /\ MutatorIdle /\ FoldIdle
    /\ MounterIdle /\ TestcaseIdle

SpecRunner == InitRunner /\ [][RunnerNext]_vars

----------------------------------------------------------------------------
(***************************************************************************)
(* Properties of the runner                                                *)
(***************************************************************************)

\* The protocol events of iteration k, in order.
RunEvents(k) == SelectSeq(io, LAMBDA e : e.run = k)

\* The current iteration has forked its child.
Forked == \E i \in 1..Len(trace) : trace[i].op = "fork"

\* The kmsg scan of the current iteration completed and found a crash line.
KmsgFound == Forked /\ child.scanned /\ kmsg_contains_bug(child.lines)

\* The kmsg scan of the current iteration completed and found no crash line.
KmsgClean == Forked /\ child.scanned /\ ~kmsg_contains_bug(child.lines)

\* The current iteration wrote a status word.
StatusWritten == \E i \in 1..Len(io) : io[i].run = runs /\ io[i].ev = "status"

ExitedWith(code) == pc = "exited" /\ exit_code = [kind |-> "exit", code |-> code]

\* C2 (as claimed): when the kmsg scan after waitpid finds a line containing
\* "BUG" or "UBSAN:", fork_work_and_wait yields Failure and the status word
\* written for the testcase is 139, whatever the wait status was.
C2_KmsgCrashIsFailure ==
    /\ (KmsgFound /\ pc \in {"fold", "report"}) => status = "Failure"
    /\ (KmsgFound /\ StatusWritten) => io[Len(io)].val = ToWord32(139)

\* C3: with the forkserver enabled, the events of an iteration are, in order,
\* a read of the was-killed word from fd 198, a write of the fake PID
\* INT32_MAX to fd 199 and a write of one status word to fd 199 (so a status
\* word always follows a fake PID of its own iteration); every iteration that
\* is followed by another one (executed testcase or known crash) made all
\* three, each of exactly 4 bytes; and new_run() and report() calls alternate,
\* starting with new_run().  (The iteration that leaves the loop, on empty
\* stdin or on an error, ends before its status.)
C3_PerRunProtocol ==
    /\ \A i \in 1..Len(calls) : calls[i] = (IF i % 2 = 1 THEN "new_run" ELSE "report")
    /\ ~fs_disabled =>
        \A k \in 1..runs :
            LET evs == RunEvents(k) IN
            /\ Len(evs) <= 3
            /\ Len(evs) >= 1 =>
                  evs[1].ev = "was_killed" /\ evs[1].fd = AFL_FORKSERVER_READ_FD
            /\ Len(evs) >= 2 =>
                  /\ evs[1].n = 4
                  /\ evs[2].ev = "fake_pid" /\ evs[2].fd = AFL_FORKSERVER_WRITE_FD
                  /\ evs[2].val = INT32_MAX
            /\ Len(evs) >= 3 =>
                  /\ evs[2].n = 4
                  /\ evs[3].ev = "status" /\ evs[3].fd = AFL_FORKSERVER_WRITE_FD
            /\ (k < runs \/ pc = "new_run") =>
                  Len(evs) = 3 /\ \A j \in 1..3 : evs[j].n = 4

\* C3 witness: two iterations ran with the forkserver enabled, the first an
\* executed testcase, the second a known crash, both fully reported.
C3_Witness ==
    /\ ~fs_disabled /\ runs = 2 /\ count = 1
    /\ tc = "KnownCrash" /\ pc = "new_run"
    /\ Len(RunEvents(1)) = 3 /\ Len(RunEvents(2)) = 3

\* C4: when the kmsg scan found no crash line, a child that exited with 88
\* gives Success and the word 0, a child ended by a signal gives Failure and
\* the word 139, and any other exit code or wait status is an Err out of
\* the loop: no status word (and no report() call) for that testcase, and the
\* process exits with code 1.
C4_OutcomeMapping ==
    /\ (KmsgClean /\ pc \in {"fold", "report"}) =>
          \/ child.wait = Exited(EXIT_OK) /\ status = "Success"
          \/ child.wait = Signaled /\ status = "Failure"
    /\ (KmsgClean /\ StatusWritten) =>
          io[Len(io)].val = (IF child.wait = Exited(EXIT_OK) THEN ToWord32(0)
                             ELSE ToWord32(139))
    /\ (KmsgClean /\ child.wait # Exited(EXIT_OK) /\ child.wait # Signaled) =>
          /\ result = "err"
          /\ ~StatusWritten
          /\ calls[Len(calls)] = "new_run"
          /\ pc \in {"return", "exited"}
          /\ pc = "exited" => ExitedWith(1)

\* C4 witness: the child exited with 89, kmsg was clean, the runner exited 1.
C4_Witness ==
    /\ KmsgClean /\ child.wait = Exited(EXIT_BAD) /\ ~fs_disabled
    /\ ExitedWith(1)

\* get_next_testcase has read and classified the current `input`.
Classified == tc \in {"NoMore", "KnownCrash", "Ok", "Err", "Panic"}

\* The known-crash iteration did nothing but report: nothing persisted,
\* decompressed, reset, forked or folded; Failure (139) is the word written;
\* and after the report the loop is at its next new_run().
KnownCrashShortCircuit ==
    tc = "KnownCrash" =>
        /\ trace = <<>>
        /\ StatusWritten => io[Len(io)].val = ToWord32(139)
        /\ pc \in {"report_known", "new_run", "get_testcase", "return", "exited"}
        /\ (pc \in {"return", "exited"}) => result = "err"

\* C5 (as claimed): an input is treated as a known crash if and only if its
\* hash equals the hash of some file of the known-crash directory, and then
\* the runner only reports Failure and goes on.
C5_KnownCrashIffHashMatches ==
    /\ Classified =>
          (tc = "KnownCrash" <=> Hash(input) \in load_known_crashes(env.known_files))
    /\ KnownCrashShortCircuit

\* C5 (amended): a non-empty input is treated as a known crash if and only if
\* its hash equals the hash of some file of the known-crash directory (an
\* empty input ends the loop before it is hashed); for a known crash the
\* runner only reports Failure and goes on to the next testcase.
C5_NonEmptyKnownCrashIffHashMatches ==
    /\ Classified =>
          (tc = "KnownCrash" <=>
              (input # <<>> /\ Hash(input) \in load_known_crashes(env.known_files)))
    /\ KnownCrashShortCircuit

\* C5 witness: an input whose hash matches a known crash of other contents was
\* reported as a failure and the loop went on.
C5_Witness ==
    /\ tc = "KnownCrash" /\ pc = "new_run" /\ ~fs_disabled
    /\ input \notin env.known_files
    /\ StatusWritten

\* C6 (as claimed): on an empty testcase the runner leaves the loop without
\* resetting, forking or mounting and exits with 0; an Err out of _main exits
\* with 1; the parent ends with no other exit code.
C6_ExitCodes ==
    /\ (tc = "NoMore" /\ pc \in {"return", "exited"}) =>
          /\ trace = <<>>
          /\ pc = "exited" => ExitedWith(0)
    /\ (result = "err" /\ pc = "exited") => ExitedWith(1)
    /\ pc = "exited" => (ExitedWith(0) \/ ExitedWith(1))

----------------------------------------------------------------------------
(***************************************************************************)
(* imgcompress/structs.rs: the on-disk records, scaled.                    *)
(*                                                                         *)
(* An image is a sequence of cells. The magic keeps its 8 bytes, one per   *)
(* cell. Every other field the program reads takes one cell, which holds   *)
(* the field's whole value; the fields it never reads are left out, except *)
(* that a checksum field keeps two cells: the 4 bytes a CRC32C occupies    *)
(* and the 28 bytes after them. The offsets and sizes below are those of   *)
(* the scaled records, in cells.                                           *)
(***************************************************************************)

\* structs.rs:1 (32 bytes: 4 of digest, 28 left alone)
BTRFS_CSUM_SIZE == 2
\* lib.rs:140 `offset..(offset + 4)`: the cells a CRC32C digest takes
CSUM_DIGEST_SIZE == 1
\* structs.rs:5
BTRFS_SYSTEM_CHUNK_ARRAY_SIZE == 10
\* structs.rs:7-9
BTRFS_SUPERBLOCK_OFFSET == 2
BTRFS_SUPERBLOCK_OFFSET2 == 1000
BTRFS_SUPERBLOCK_OFFSET3 == 2000
\* structs.rs:10, b"_BHRfS_M"
BTRFS_SUPERBLOCK_MAGIC == <<95, 66, 72, 82, 102, 83, 95, 77>>
\* structs.rs:12, 16, 18, 19
BTRFS_CSUM_TYPE_CRC32 == 0
BTRFS_CSUM_CRC32_SEED == 0
BTRFS_CHUNK_ITEM_KEY == 228
BTRFS_ROOT_ITEM_KEY == 132

\* structs.rs:86-128, offsets of the fields of BtrfsSuperblock
SuperblockField ==
    [csum |-> 0, magic |-> 2, root |-> 10, chunk_root |-> 11, log_root |-> 12,
     node_size |-> 13, sys_chunk_array_size |-> 14, csum_type |-> 15,
     sys_chunk_array |-> 16, root_backups |-> 26]
\* structs.rs:254-265, BtrfsHeader
HeaderField == [csum |-> 0, nritems |-> 2, level |-> 3]
\* structs.rs:246-250, BtrfsKey
KeyField == [ty |-> 0, offset |-> 1]
\* structs.rs:140-159, BtrfsChunk (stripe.offset is the one field of the stripe)
ChunkField == [length |-> 0, num_stripes |-> 1, stripe_offset |-> 2]
\* structs.rs:271-275, BtrfsItem
ItemField == [key |-> 0, offset |-> 2, size |-> 3]
\* structs.rs:287-291, BtrfsKeyPtr
KeyPtrField == [key |-> 0, blockptr |-> 2]
\* structs.rs:195-225, BtrfsRootItem
RootItemField == [bytenr |-> 0]

\* std::mem::size_of of the scaled records
SizeOf ==
    [BtrfsSuperblock |-> 31, BtrfsHeader |-> 4, BtrfsKey |-> 2, BtrfsChunk |-> 3,
     BtrfsStripe |-> 1, BtrfsItem |-> 4, BtrfsKeyPtr |-> 3, BtrfsRootItem |-> 1]
\* structs.rs:11
BTRFS_SUPERBLOCK_SIZE == 31

\* Rust's s[a..b] on a slice that holds it, and s[i]
Slice(s, a, b) == SubSeq(s, a + 1, b)
At(s, i) == s[i + 1]
\* whether s[a..b] is in range (otherwise the indexing panics)
InRange(s, a, b) == a <= b /\ b <= Len(s)

\* Vec::splice(a..b, bytes) with Len(bytes) = b - a, on a vector that holds a..b
Splice(s, a, b, bytes) ==
    [i \in 1..Len(s) |-> IF i > a /\ i <= b THEN bytes[i - a] ELSE s[i]]

Zeros(n) == [i \in 1..n |-> 0]

\* crc32c::crc32c_append(seed, bytes), scaled to a digest of one cell: a
\* running remainder over the cells, which depends on every cell and on the
\* order of the cells.
RECURSIVE crc32c_append(_, _)
crc32c_append(crc, bytes) ==
    IF bytes = <<>> THEN crc
    ELSE crc32c_append((crc * 31 + Head(bytes) + 1) % 65521, Tail(bytes))

----------------------------------------------------------------------------
(***************************************************************************)
(* zstd, scaled: a frame is a magic cell followed by (count, value) runs.  *)
(***************************************************************************)
ZSTD_MAGIC == 40

\* the runs of s, first to last
RECURSIVE Runs(_)
Runs(s) ==
    IF s = <<>> THEN <<>>
    ELSE LET same == {n \in 1..Len(s) : \A i \in 1..n : s[i] = s[1]}
             n == CHOOSE m \in same : \A k \in same : k <= m
         IN <<n, s[1]>> \o Runs(SubSeq(s, n + 1, Len(s)))

\* zstd::stream::encode_all
encode_all(s) == <<ZSTD_MAGIC>> \o Runs(s)

RECURSIVE Expand(_)
Expand(rs) ==
    IF rs = <<>> THEN <<>>
    ELSE [i \in 1..rs[1] |-> rs[2]] \o Expand(SubSeq(rs, 3, Len(rs)))

WellFormedFrame(b) ==
    /\ Len(b) >= 1
    /\ b[1] = ZSTD_MAGIC
    /\ (Len(b) - 1) % 2 = 0
    /\ \A k \in 1..((Len(b) - 1) \div 2) : b[2 * k] >= 1

\* zstd::stream::decode_all (lib.rs:78): the set of results it can give. An
\* empty input holds no frame: it decodes to an empty vector, or it is an
\* "incomplete frame" error, depending on the zstd release linked in.
decode_all(b) ==
    IF b = <<>> THEN {[ok |-> TRUE, image |-> <<>>], [ok |-> FALSE, image |-> <<>>]}
    ELSE IF WellFormedFrame(b)
         THEN {[ok |-> TRUE, image |-> Expand(Tail(b))]}
         ELSE {[ok |-> FALSE, image |-> <<>>]}

----------------------------------------------------------------------------
(***************************************************************************)
(* The images compress() is given: what mkfs.btrfs writes                  *)
(* (lib.rs:148-172, generate_test_image), scaled. A system chunk holds the *)
(* chunk tree's one leaf; a metadata chunk holds the root tree's leaf, the *)
(* root of the fs tree, a child of that root and the log tree's leaf.      *)
(***************************************************************************)
Mkfs ==
    [node_size |-> 18,
     sys_logical |-> 200, sys_physical |-> 33,
     meta_logical |-> 300, meta_physical |-> 51, meta_nodes |-> 4,
     image_len |-> 177]

\* the block with its checksum field filled in: the digest, then zeros
WithCsum(block) ==
    <<crc32c_append(BTRFS_CSUM_CRC32_SEED, Slice(block, BTRFS_CSUM_SIZE, Len(block))), 0>>
        \o Slice(block, BTRFS_CSUM_SIZE, Len(block))

\* a tree block: header, the item or key-pointer records, and the items'
\* payloads at the end of the block
TreeBlock(nritems, level, records, payloads) ==
    WithCsum(<<0, 0, nritems, level>> \o records
             \o Zeros(Mkfs.node_size - SizeOf.BtrfsHeader - Len(records) - Len(payloads))
             \o payloads)

\* BtrfsItem.offset of the k-th payload (k = 1 is the last in the block) of
\* `size` cells each: relative to the end of the header
PayloadOffset(k, size) == Mkfs.node_size - k * size - SizeOf.BtrfsHeader

ChunkItem(logical, length, physical) ==
    [key |-> <<BTRFS_CHUNK_ITEM_KEY, logical>>, chunk |-> <<length, 1, physical>>]

SysChunk == ChunkItem(Mkfs.sys_logical, Mkfs.node_size, Mkfs.sys_physical)
MetaChunk ==
    ChunkItem(Mkfs.meta_logical, Mkfs.meta_nodes * Mkfs.node_size, Mkfs.meta_physical)

\* logical address of the n-th block (from 0) of the metadata chunk
MetaBlock(n) == Mkfs.meta_logical + n * Mkfs.node_size

\* the chunk tree's leaf: the metadata chunk and, as mkfs writes it, the system
\* chunk that sys_chunk_array lists as well
ChunkLeaf(p) ==
    IF p.dup_sys
    THEN TreeBlock(2, 0,
            SysChunk.key \o <<PayloadOffset(1, SizeOf.BtrfsChunk), SizeOf.BtrfsChunk>>
            \o MetaChunk.key \o <<PayloadOffset(2, SizeOf.BtrfsChunk), SizeOf.BtrfsChunk>>,
            MetaChunk.chunk \o SysChunk.chunk)
    ELSE TreeBlock(1, 0,
            MetaChunk.key \o <<PayloadOffset(1, SizeOf.BtrfsChunk), SizeOf.BtrfsChunk>>,
            MetaChunk.chunk)

\* the root tree's leaf: the root item of the fs tree, after an item of
\* another type when p.extra_item; when p.snapshot, a second root item whose
\* bytenr is the block the first one names
RootLeaf(p) ==
    IF p.snapshot
    THEN TreeBlock(2, 0,
            <<BTRFS_ROOT_ITEM_KEY, 0, PayloadOffset(1, 1), 1>>
            \o <<BTRFS_ROOT_ITEM_KEY, 1, PayloadOffset(2, 1), 1>>,
            <<MetaBlock(1), MetaBlock(1)>>)
    ELSE IF p.extra_item
    THEN TreeBlock(2, 0,
            <<1, 0, PayloadOffset(1, 1), 1>>
            \o <<BTRFS_ROOT_ITEM_KEY, 0, PayloadOffset(2, 1), 1>>,
            <<MetaBlock(1), 7>>)
    ELSE TreeBlock(1, 0,
            <<BTRFS_ROOT_ITEM_KEY, 0, PayloadOffset(1, 1), 1>>,
            <<MetaBlock(1)>>)

\* the fs tree's root: a leaf, or a node over the one leaf in block 2
FsRoot(p) ==
    IF p.fs_internal
    THEN TreeBlock(1, 1, <<1, 0, MetaBlock(2)>>, <<>>)
    ELSE TreeBlock(1, 0, <<1, 0, PayloadOffset(1, 1), 1>>, <<9>>)

FsChild(p) ==
    IF p.fs_internal
    THEN TreeBlock(1, 0, <<1, 0, PayloadOffset(1, 1), 1>>, <<9>>)
    ELSE Zeros(Mkfs.node_size)

LogLeaf(p) ==
    IF p.log THEN TreeBlock(0, 0, <<>>, <<>>) ELSE Zeros(Mkfs.node_size)

Superblock(p) ==
    WithCsum(<<0, 0>> \o BTRFS_SUPERBLOCK_MAGIC
             \o <<MetaBlock(0), Mkfs.sys_logical, IF p.log THEN MetaBlock(3) ELSE 0,
                  Mkfs.node_size, SizeOf.BtrfsKey + SizeOf.BtrfsChunk,
                  BTRFS_CSUM_TYPE_CRC32>>
             \o SysChunk.key \o SysChunk.chunk
             \o Zeros(BTRFS_SYSTEM_CHUNK_ARRAY_SIZE - SizeOf.BtrfsKey - SizeOf.BtrfsChunk)
             \o Zeros(SizeOf.BtrfsSuperblock - SuperblockField.root_backups))

MkfsImage(p) ==
    LET blocks == Zeros(BTRFS_SUPERBLOCK_OFFSET) \o Superblock(p) \o ChunkLeaf(p)
                  \o RootLeaf(p) \o FsRoot(p) \o FsChild(p) \o LogLeaf(p)
    IN blocks \o Zeros(Mkfs.image_len - Len(blocks))

MkfsParams ==
    [dup_sys : BOOLEAN, log : BOOLEAN, fs_internal : BOOLEAN, extra_item : BOOLEAN,
     snapshot : BOOLEAN]

----------------------------------------------------------------------------
(***************************************************************************)
(* imgcompress/btrfs.rs and imgcompress/tree.rs                            *)
(*                                                                         *)
(* A function's result is [kind, ...]: "ok", "err" (an anyhow error),      *)
(* "panic" (an index out of range, insert()'s panic!, a stack overflow) or *)
(* "ub" (a read through a raw pointer that leaves the image). A slice of   *)
(* the image is the pair lo, hi of its bounds in the image.                *)
(***************************************************************************)

\* The deepest recursion of a tree walk that is followed; a deeper one is a
\* walk that does not return (stack overflow).
MaxWalkDepth == 4

\* the field `f` of the superblock the image holds
Sb(image, f) == At(image, BTRFS_SUPERBLOCK_OFFSET + SuperblockField[f])

SbMagic(image) ==
    Slice(image, BTRFS_SUPERBLOCK_OFFSET + SuperblockField.magic,
          BTRFS_SUPERBLOCK_OFFSET + SuperblockField.magic + Len(BTRFS_SUPERBLOCK_MAGIC))

\* Mutant of parse_superblock: the magic is not looked at.
parse_superblock_AnyMagic(image) ==
    IF BTRFS_SUPERBLOCK_OFFSET + SizeOf.BtrfsSuperblock > Len(image) THEN "err"
    ELSE "ok"

\* btrfs.rs:149-162
parse_superblock(image) ==
    IF BTRFS_SUPERBLOCK_OFFSET + SizeOf.BtrfsSuperblock > Len(image) THEN "err"
    ELSE IF SbMagic(image) # BTRFS_SUPERBLOCK_MAGIC THEN "err"
    ELSE "ok"

\* ChunkTreeCache::insert (chunk_tree.rs:18-24) as a function of the vector
ctc_insert(inner, start, size, off) ==
    IF contains_overlapping(inner, ChunkTreeKey(start, size))
    THEN [kind |-> "panic", cache |-> inner]
    ELSE [kind |-> "ok", cache |-> Append(inner, CtcEntry(start, size, off))]

\* Mutant of bootstrap_next: the offset moves past the key only.
bootstrap_next_KeyOnly(image, off) == off + SizeOf.BtrfsKey

\* btrfs.rs:184, 221-226: the offset after the iteration that began at `off`:
\* past the key, then past the chunk item and the stripes after its first
bootstrap_next(image, off) ==
    LET chunk == BTRFS_SUPERBLOCK_OFFSET + SuperblockField.sys_chunk_array + off
                 + SizeOf.BtrfsKey
        num_stripes == At(image, chunk + ChunkField.num_stripes)
    IN (off + SizeOf.BtrfsKey)
           + (SizeOf.BtrfsChunk + SizeOf.BtrfsStripe * (num_stripes - 1))

\* btrfs.rs:169-229, the loop from `offset` on. The image holds a whole
\* superblock (parse_superblock), so the reads stay inside the image.
RECURSIVE bootstrap_loop(_, _, _)
bootstrap_loop(image, off, cache) ==
    LET array_size == Sb(image, "sys_chunk_array_size")
        array == BTRFS_SUPERBLOCK_OFFSET + SuperblockField.sys_chunk_array
        key == array + off
        chunk == key + SizeOf.BtrfsKey
        num_stripes == At(image, chunk + ChunkField.num_stripes)
        logical == At(image, key + KeyField.offset)
        inserted ==
            IF offset(cache, logical).some THEN [kind |-> "ok", cache |-> cache]
            ELSE ctc_insert(cache, logical, At(image, chunk + ChunkField.length),
                            At(image, chunk + ChunkField.stripe_offset))
        chunk_item_size == SizeOf.BtrfsChunk + SizeOf.BtrfsStripe * (num_stripes - 1)
    IN
    IF ~(off < array_size) THEN [kind |-> "ok", cache |-> cache]
    ELSE IF off + SizeOf.BtrfsKey > array_size THEN [kind |-> "err", cache |-> cache]
    ELSE IF off > BTRFS_SYSTEM_CHUNK_ARRAY_SIZE THEN [kind |-> "panic", cache |-> cache]
    ELSE IF At(image, key + KeyField.ty) # BTRFS_CHUNK_ITEM_KEY
         THEN [kind |-> "err", cache |-> cache]
    ELSE IF off + SizeOf.BtrfsKey + SizeOf.BtrfsChunk > array_size
         THEN [kind |-> "err", cache |-> cache]
    ELSE IF off + SizeOf.BtrfsKey > BTRFS_SYSTEM_CHUNK_ARRAY_SIZE
         THEN [kind |-> "panic", cache |-> cache]
    ELSE IF num_stripes = 0 THEN [kind |-> "err", cache |-> cache]
    ELSE IF inserted.kind # "ok" THEN inserted
    ELSE IF off + SizeOf.BtrfsKey + chunk_item_size > array_size
         THEN [kind |-> "err", cache |-> inserted.cache]
    ELSE bootstrap_loop(image, bootstrap_next(image, off), inserted.cache)

\* btrfs.rs:164-232
bootstrap_chunk_tree(image) == bootstrap_loop(image, 0, <<>>)

\* btrfs.rs:234-248: the slice runs from the node to the node's address plus
\* the length of the chunk that maps it
read_root_node(image, logical, cache) ==
    LET kv == mapping_kv(cache, logical)
        physical == offset(cache, logical)
    IN
    IF ~kv.some THEN [kind |-> "err", lo |-> 0, hi |-> 0]
    ELSE IF ~InRange(image, physical.val, physical.val + kv.val.size)
         THEN [kind |-> "panic", lo |-> 0, hi |-> 0]
    ELSE [kind |-> "ok", lo |-> physical.val, hi |-> physical.val + kv.val.size]

\* tree.rs:6-13
parse_btrfs_header(lo, hi) ==
    IF hi - lo < SizeOf.BtrfsHeader THEN "err" ELSE "ok"

\* whether the cells i .. i+n-1 are cells of the image
Readable(image, i, n) == i + n <= Len(image)

\* btrfs.rs:261-284, the loop over the leaf's items from the k-th on
RECURSIVE chunk_leaf_loop(_, _, _, _)
chunk_leaf_loop(image, lo, k, cache) ==
    LET nritems == At(image, lo + HeaderField.nritems)
        item == lo + SizeOf.BtrfsHeader + k * SizeOf.BtrfsItem
        chunk == lo + SizeOf.BtrfsHeader + At(image, item + ItemField.offset)
        inserted == ctc_insert(cache, At(image, item + ItemField.key + KeyField.offset),
                               At(image, chunk + ChunkField.length),
                               At(image, chunk + ChunkField.stripe_offset))
    IN
    IF k >= nritems THEN [kind |-> "ok", cache |-> cache]
    ELSE IF ~Readable(image, item, SizeOf.BtrfsItem) THEN [kind |-> "ub", cache |-> cache]
    ELSE IF At(image, item + ItemField.key + KeyField.ty) # BTRFS_CHUNK_ITEM_KEY
         THEN chunk_leaf_loop(image, lo, k + 1, cache)
    ELSE IF ~Readable(image, chunk, SizeOf.BtrfsChunk) THEN [kind |-> "ub", cache |-> cache]
    ELSE IF inserted.kind # "ok" THEN inserted
    ELSE chunk_leaf_loop(image, lo, k + 1, inserted.cache)

\* btrfs.rs:250-299; `depth` counts the calls on the stack
RECURSIVE read_chunk_tree(_, _, _, _, _)
RECURSIVE chunk_node_loop(_, _, _, _, _)
read_chunk_tree(image, lo, hi, cache, depth) ==
    IF depth > MaxWalkDepth THEN [kind |-> "panic", cache |-> cache]
    ELSE IF parse_btrfs_header(lo, hi) # "ok" THEN [kind |-> "err", cache |-> cache]
    ELSE IF At(image, lo + HeaderField.level) = 0
         THEN chunk_leaf_loop(image, lo, 0, cache)
    ELSE chunk_node_loop(image, lo, 0, cache, depth)

\* btrfs.rs:286-295, the loop over the node's key pointers from the k-th on
chunk_node_loop(image, lo, k, cache, depth) ==
    LET nritems == At(image, lo + HeaderField.nritems)
        ptr == lo + SizeOf.BtrfsHeader + k * SizeOf.BtrfsKeyPtr
        physical == offset(cache, At(image, ptr + KeyPtrField.blockptr))
        end == physical.val + Sb(image, "node_size")
        sub == read_chunk_tree(image, physical.val, end, cache, depth + 1)
    IN
    IF k >= nritems THEN [kind |-> "ok", cache |-> cache]
    ELSE IF ~Readable(image, ptr, SizeOf.BtrfsKeyPtr) THEN [kind |-> "ub", cache |-> cache]
    ELSE IF ~physical.some THEN [kind |-> "err", cache |-> cache]
    ELSE IF ~InRange(image, physical.val, end) THEN [kind |-> "panic", cache |-> cache]
    ELSE IF sub.kind # "ok" THEN sub
    ELSE chunk_node_loop(image, lo, k + 1, sub.cache, depth)

\* Mutant of PushExtent: the extent records the size of a header whatever
\* the number of bytes stored.
PushExtent_HeaderSize(c, physical, bytes) ==
    [c EXCEPT !.metadata = Append(@, [needs_csum_fixup |-> FALSE,
                                      offset |-> physical,
                                      size |-> SizeOf.BtrfsHeader]),
              !.data = @ \o bytes]

\* btrfs.rs:49-56, 83-86, 126-129, 133-136: record an extent. The walker
\* pushes the pair (offset, size); needs_csum_fixup is never set and keeps
\* its default, as `base` and `node_size` do.
PushExtent(c, physical, bytes) ==
    [c EXCEPT !.metadata = Append(@, [needs_csum_fixup |-> FALSE,
                                      offset |-> physical, size |-> Len(bytes)]),
              !.data = @ \o bytes]

Walked(kind, c) == [kind |-> kind, c |-> c]

\* btrfs.rs:81-82, 121-132: the header and the records that follow it
MetadataSize(nritems, record) == SizeOf.BtrfsHeader + nritems * record

RECURSIVE parse_tree(_, _, _, _, _)
RECURSIVE parse_node_loop(_, _, _, _, _, _, _)

\* btrfs.rs:121-143 on the node parse_tree read
parse_tree_node(image, cache, physical, node, metadata_size, c, depth) ==
    IF metadata_size > node.hi - node.lo THEN Walked("panic", c)
    ELSE IF At(image, node.lo + HeaderField.level) = 0
         THEN Walked("ok", PushExtent(c, physical,
                                      Slice(image, node.lo, node.lo + metadata_size)))
    ELSE parse_node_loop(image, cache, node.lo, At(image, node.lo + HeaderField.nritems), 0,
                         PushExtent(c, physical,
                                    Slice(image, node.lo, node.lo + metadata_size)),
                         depth)

\* btrfs.rs:111-120 once the address is known to be mapped
parse_tree_mapped(image, cache, physical, node, c, depth) ==
    IF node.kind # "ok" THEN Walked(node.kind, c)
    ELSE IF parse_btrfs_header(node.lo, node.hi) # "ok" THEN Walked("err", c)
    ELSE parse_tree_node(image, cache, physical, node,
            MetadataSize(At(image, node.lo + HeaderField.nritems),
                         IF At(image, node.lo + HeaderField.level) = 0
                         THEN SizeOf.BtrfsItem ELSE SizeOf.BtrfsKeyPtr),
            c, depth)

\* btrfs.rs:111-146; `depth` counts the calls on the stack
parse_tree(image, cache, logical, c, depth) ==
    IF depth > MaxWalkDepth THEN Walked("panic", c)
    ELSE IF ~offset(cache, logical).some THEN Walked("err", c)
    ELSE parse_tree_mapped(image, cache, offset(cache, logical).val,
                           read_root_node(image, logical, cache), c, depth)

\* btrfs.rs:139-142, the loop over the node's key pointers from the k-th on
parse_node_loop(image, cache, lo, nritems, k, c, depth) ==
    IF k >= nritems THEN Walked("ok", c)
    ELSE LET sub == parse_tree(image, cache,
                        At(image, lo + SizeOf.BtrfsHeader + k * SizeOf.BtrfsKeyPtr
                                  + KeyPtrField.blockptr),
                        c, depth + 1)
         IN IF sub.kind # "ok" THEN sub
            ELSE parse_node_loop(image, cache, lo, nritems, k + 1, sub.c, depth)

\* btrfs.rs:90-103, the loop over the leaf's items in reverse, from the k-th down
RECURSIVE root_leaf_loop(_, _, _, _, _)
root_leaf_loop(image, cache, lo, k, c) ==
    LET item == lo + SizeOf.BtrfsHeader + k * SizeOf.BtrfsItem
        root_item == lo + SizeOf.BtrfsHeader + At(image, item + ItemField.offset)
        sub == parse_tree(image, cache, At(image, root_item + RootItemField.bytenr), c, 1)
    IN
    IF k < 0 THEN Walked("ok", c)
    ELSE IF At(image, item + ItemField.key + KeyField.ty) # BTRFS_ROOT_ITEM_KEY
         THEN root_leaf_loop(image, cache, lo, k - 1, c)
    ELSE IF ~Readable(image, root_item, SizeOf.BtrfsRootItem) THEN Walked("ub", c)
    ELSE IF sub.kind # "ok" THEN sub
    ELSE root_leaf_loop(image, cache, lo, k - 1, sub.c)

\* Mutant of parse_root_leaf: the root tree's root is walked as a leaf
\* whatever its level.
parse_root_leaf_AnyLevel(image, cache, physical, node, nritems, c) ==
    IF node.kind # "ok" THEN Walked(node.kind, c)
    ELSE IF parse_btrfs_header(node.lo, node.hi) # "ok" THEN Walked("err", c)
    ELSE IF MetadataSize(nritems, SizeOf.BtrfsItem) > node.hi - node.lo
         THEN Walked("panic", c)
    ELSE root_leaf_loop(image, cache, node.lo, nritems - 1,
            PushExtent(c, physical,
                       Slice(image, node.lo,
                             node.lo + MetadataSize(nritems, SizeOf.BtrfsItem))))

\* btrfs.rs:77-106 on the node parse_root_tree read
parse_root_leaf(image, cache, physical, node, nritems, c) ==
    IF node.kind # "ok" THEN Walked(node.kind, c)
    ELSE IF parse_btrfs_header(node.lo, node.hi) # "ok" THEN Walked("err", c)
    ELSE IF At(image, node.lo + HeaderField.level) # 0 THEN Walked("err", c)
    ELSE IF MetadataSize(nritems, SizeOf.BtrfsItem) > node.hi - node.lo
         THEN Walked("panic", c)
    ELSE root_leaf_loop(image, cache, node.lo, nritems - 1,
            PushExtent(c, physical,
                       Slice(image, node.lo,
                             node.lo + MetadataSize(nritems, SizeOf.BtrfsItem))))

\* btrfs.rs:69-109
parse_root_tree(image, cache, c) ==
    LET node == read_root_node(image, Sb(image, "root"), cache) IN
    IF ~offset(cache, Sb(image, "root")).some THEN Walked("err", c)
    ELSE parse_root_leaf(image, cache, offset(cache, Sb(image, "root")).val, node,
                         At(image, node.lo + HeaderField.nritems), c)

\* btrfs.rs:45-67, Btrfs::compress on the Btrfs that Btrfs::new built
compress_walk(image, cache) ==
    LET walked == parse_root_tree(image, cache,
                      PushExtent(DefaultCompressed, BTRFS_SUPERBLOCK_OFFSET,
                                 Slice(image, BTRFS_SUPERBLOCK_OFFSET,
                                       BTRFS_SUPERBLOCK_OFFSET + SizeOf.BtrfsSuperblock)))
    IN
    IF walked.kind # "ok" THEN walked
    ELSE parse_tree(image, cache, Sb(image, "log_root"), walked.c, 1)

----------------------------------------------------------------------------
(***************************************************************************)
(* imgcompress/lib.rs: decompress                                          *)
(***************************************************************************)

\* lib.rs:82-93, the loop from the k-th extent on
RECURSIVE lay_extents(_, _, _, _)
lay_extents(image, c, k, data_idx) ==
    LET m == c.metadata[k] IN
    IF k > Len(c.metadata) THEN [kind |-> "ok", image |-> image]
    ELSE IF ~InRange(c.data, data_idx, data_idx + m.size)
         THEN [kind |-> "panic", image |-> <<>>]
    ELSE IF ~InRange(image, m.offset, m.offset + m.size)
         THEN [kind |-> "panic", image |-> <<>>]
    ELSE lay_extents(Splice(image, m.offset, m.offset + m.size,
                            Slice(c.data, data_idx, data_idx + m.size)),
                     c, k + 1, data_idx + m.size)

\* lib.rs:96-111
fix_superblock(image) ==
    IF Len(image) < BTRFS_SUPERBLOCK_OFFSET + BTRFS_SUPERBLOCK_SIZE
    THEN [kind |-> "err", image |-> <<>>]
    ELSE [kind |-> "ok",
          image |-> IF SbMagic(image) # BTRFS_SUPERBLOCK_MAGIC
                    THEN Splice(image,
                                BTRFS_SUPERBLOCK_OFFSET + SuperblockField.magic,
                                BTRFS_SUPERBLOCK_OFFSET + SuperblockField.magic
                                    + Len(BTRFS_SUPERBLOCK_MAGIC),
                                BTRFS_SUPERBLOCK_MAGIC)
                    ELSE image]

\* Mutant of block_size: every checksummed block is taken to be a tree node.
block_size_NodeSizeOnly(c, off) == c.node_size

\* lib.rs:121-128
block_size(c, off) ==
    IF \/ off = BTRFS_SUPERBLOCK_OFFSET
       \/ off = BTRFS_SUPERBLOCK_OFFSET2
       \/ off = BTRFS_SUPERBLOCK_OFFSET3
    THEN BTRFS_SUPERBLOCK_SIZE
    ELSE c.node_size

\* lib.rs:114-142, the loop from the k-th extent on
RECURSIVE fix_checksums(_, _, _)
fix_checksums(image, c, k) ==
    LET m == c.metadata[k]
        begin == m.offset + BTRFS_CSUM_SIZE
        end == m.offset + block_size(c, m.offset)
        checksum == crc32c_append(BTRFS_CSUM_CRC32_SEED, Slice(image, begin, end))
    IN
    IF k > Len(c.metadata) THEN [kind |-> "ok", image |-> image]
    ELSE IF ~m.needs_csum_fixup THEN fix_checksums(image, c, k + 1)
    ELSE IF block_size(c, m.offset) = 0 THEN [kind |-> "panic", image |-> <<>>]
    ELSE IF ~InRange(image, begin, end) THEN [kind |-> "panic", image |-> <<>>]
    ELSE fix_checksums(Splice(image, m.offset, m.offset + CSUM_DIGEST_SIZE, <<checksum>>),
                       c, k + 1)

\* Mutant of decompress_from: the extents are not laid over the base.
decompress_from_NoOverlay(d, c) ==
    LET fixed == fix_superblock(d.image) IN
    IF ~d.ok THEN [kind |-> "err", image |-> <<>>]
    ELSE IF fixed.kind # "ok" THEN fixed
    ELSE fix_checksums(fixed.image, c, 1)

\* lib.rs:76-145 on the image decode_all gave
decompress_from(d, c) ==
    LET laid == lay_extents(d.image, c, 1, 0)
        fixed == fix_superblock(laid.image)
    IN
    IF ~d.ok THEN [kind |-> "err", image |-> <<>>]
    ELSE IF laid.kind # "ok" THEN laid
    ELSE IF fixed.kind # "ok" THEN fixed
    ELSE fix_checksums(fixed.image, c, 1)

\* lib.rs:76-145: the results decompress can give
decompress(c) == {decompress_from(d, c) : d \in decode_all(c.base)}

----------------------------------------------------------------------------
(***************************************************************************)
(* SpecCodec: `imgcompress compress` on an image (Btrfs::new, then          *)
(* Btrfs::compress), or a compressed image read from a file; the fuzzer's  *)
(* change of the data payload; decompress.                                 *)
(***************************************************************************)

\* How many cells of the payload the fuzzer changes before decompress runs.
MaxScribbles == 1

\* test_superblock_magic_fixup (lib.rs:222): magic[3] = b'Z'
CorruptMagic(image) ==
    [image EXCEPT ![BTRFS_SUPERBLOCK_OFFSET + SuperblockField.magic + 3 + 1] = 90]

\* the magic overwritten with eight zero bytes
ZeroMagic(image) ==
    Splice(image, BTRFS_SUPERBLOCK_OFFSET + SuperblockField.magic,
           BTRFS_SUPERBLOCK_OFFSET + SuperblockField.magic + Len(BTRFS_SUPERBLOCK_MAGIC),
           Zeros(Len(BTRFS_SUPERBLOCK_MAGIC)))

\* the image with cell i set to v
WithCell(image, i, v) == [image EXCEPT ![i + 1] = v]

\* the image with a second entry in sys_chunk_array, that of the metadata
\* chunk
TwoSysChunks(image) ==
    LET sb == BTRFS_SUPERBLOCK_OFFSET
        second == sb + SuperblockField.sys_chunk_array + SizeOf.BtrfsKey + SizeOf.BtrfsChunk
    IN WithCell(Splice(image, second, second + SizeOf.BtrfsKey + SizeOf.BtrfsChunk,
                       MetaChunk.key \o MetaChunk.chunk),
                sb + SuperblockField.sys_chunk_array_size,
                2 * (SizeOf.BtrfsKey + SizeOf.BtrfsChunk))

\* the image whose fs tree's root is an internal node whose key pointer
\* names the root itself: a tree with a cycle
SelfPointing(image) ==
    LET root == Mkfs.meta_physical + Mkfs.node_size IN
    WithCell(WithCell(image, root + HeaderField.level, 1),
             root + SizeOf.BtrfsHeader + KeyPtrField.blockptr, MetaBlock(1))

\* images with one field of the metadata damaged: the key type of the first
\* sys_chunk_array entry; sys_chunk_array_size cut inside the key, inside the
\* chunk item, and before the second stripe of a chunk with two stripes; the
\* level of the root tree's root; superblock.root at an address of no chunk
DamagedImages(image) ==
    LET sb == BTRFS_SUPERBLOCK_OFFSET
        entry == sb + SuperblockField.sys_chunk_array
    IN
    {WithCell(image, entry + KeyField.ty, 1),
     WithCell(image, sb + SuperblockField.sys_chunk_array_size, 1),
     WithCell(image, sb + SuperblockField.sys_chunk_array_size, SizeOf.BtrfsKey + 1),
     WithCell(WithCell(image, entry + SizeOf.BtrfsKey + ChunkField.num_stripes, 2),
              sb + SuperblockField.sys_chunk_array_size,
              SizeOf.BtrfsKey + SizeOf.BtrfsChunk),
     WithCell(image, Mkfs.meta_physical + HeaderField.level, 1),
     WithCell(image, sb + SuperblockField.root, 7),
     TwoSysChunks(image), SelfPointing(image)}

\* the files handed to compress: the image mkfs wrote, the same with its
\* magic corrupted, a file cut short inside the superblock, and the images
\* with a damaged field
InputImages(image) ==
    {image, CorruptMagic(image), ZeroMagic(image),
     Slice(image, 0, BTRFS_SUPERBLOCK_OFFSET + 5)}
        \cup DamagedImages(image)

Extent(fix, off, size) == [needs_csum_fixup |-> fix, offset |-> off, size |-> size]

\* the extent lists of the compressed files handed to decompress
ExtentLists ==
    {<<>>,
     <<Extent(TRUE, BTRFS_SUPERBLOCK_OFFSET, SizeOf.BtrfsSuperblock)>>,
     <<Extent(TRUE, BTRFS_SUPERBLOCK_OFFSET, SizeOf.BtrfsSuperblock),
       Extent(TRUE, Mkfs.meta_physical, SizeOf.BtrfsHeader + SizeOf.BtrfsItem)>>,
     <<Extent(FALSE, BTRFS_SUPERBLOCK_OFFSET, SizeOf.BtrfsSuperblock),
       Extent(TRUE, Mkfs.meta_physical, SizeOf.BtrfsHeader + SizeOf.BtrfsItem)>>,
     <<Extent(TRUE, BTRFS_SUPERBLOCK_OFFSET, SizeOf.BtrfsSuperblock),
       Extent(TRUE, BTRFS_SUPERBLOCK_OFFSET + SuperblockField.magic + 3, 1)>>,
     <<Extent(FALSE, Mkfs.image_len, 1)>>}

\* lib.rs:37-43: `data` holds the extents' bytes one after the other
RECURSIVE PayloadOf(_, _)
PayloadOf(image, extents) ==
    IF extents = <<>> THEN <<>>
    ELSE LET m == Head(extents) IN
         (IF InRange(image, m.offset, m.offset + m.size)
          THEN Slice(image, m.offset, m.offset + m.size)
          ELSE Zeros(m.size))
         \o PayloadOf(image, Tail(extents))

\* the compressed files handed to decompress (bin/main.rs:52-58, runner
\* main.rs:183): a base that holds the image or a cut-short one, extents over
\* the image, a node size
Testcases(image) ==
    {[base |-> encode_all(b), metadata |-> m, data |-> PayloadOf(image, m),
      node_size |-> n] :
        b \in {image, Slice(image, 0, BTRFS_SUPERBLOCK_OFFSET + 5)},
        m \in ExtentLists,
        n \in {Mkfs.node_size, 0}}

\* the cells of `data` the fuzzer changes, and the values it writes
MutateAt == {SuperblockField.csum, SuperblockField.magic + 3, SuperblockField.root}
MutateBytes == {0, 90}

\* a read outside the image is undefined behaviour: what the caller sees of it
Seen(kind) == IF kind = "ub" THEN {"panic", "err"} ELSE {kind}

\* btrfs.rs:22-23
ParseSuperblock ==
    /\ cpc = "start"
    /\ IF parse_superblock(img) = "ok"
       THEN cpc' = "bootstrap" /\ cres' = cres
       ELSE cpc' = "failed" /\ cres' = "err"
    /\ UNCHANGED <<img, orig, compressed, source, scribbles, decompressed,
                   chunk_tree_cache, panicked, notCodec>>

\* btrfs.rs:26-27
BootstrapChunkTree ==
    /\ cpc = "bootstrap"
    /\ LET r == bootstrap_chunk_tree(img) IN
       /\ chunk_tree_cache' = r.cache
       /\ IF r.kind = "ok"
          THEN cpc' = "read_chunk_tree" /\ cres' = cres
          ELSE cpc' = "failed" /\ cres' \in Seen(r.kind)
    /\ panicked' = (cres' = "panic")
    /\ UNCHANGED <<img, orig, compressed, source, scribbles, decompressed, notCodec>>

\* btrfs.rs:30-41
ReadChunkTree ==
    /\ cpc = "read_chunk_tree"
    /\ LET chunk_root == read_root_node(img, Sb(img, "chunk_root"), chunk_tree_cache)
           r == IF chunk_root.kind # "ok"
                THEN [kind |-> chunk_root.kind, cache |-> chunk_tree_cache]
                ELSE read_chunk_tree(img, chunk_root.lo, chunk_root.hi,
                                     chunk_tree_cache, 1)
       IN
       /\ chunk_tree_cache' = r.cache
       /\ IF r.kind = "ok"
          THEN cpc' = "compress" /\ cres' = cres
          ELSE cpc' = "failed" /\ cres' \in Seen(r.kind)
    /\ panicked' = (cres' = "panic")
    /\ UNCHANGED <<img, orig, compressed, source, scribbles, decompressed, notCodec>>

\* lib.rs:68-71 after Btrfs::new, btrfs.rs:45-67
Compress ==
    /\ cpc = "compress"
    /\ LET r == compress_walk(img, chunk_tree_cache) IN
       IF r.kind = "ok"
       THEN /\ cpc' = "compressed"
            /\ cres' = "ok"
            /\ compressed' = r.c
            /\ source' = "compress"
       ELSE /\ cpc' = "failed"
            /\ cres' \in Seen(r.kind)
            /\ UNCHANGED <<compressed, source>>
    /\ panicked' = (cres' = "panic")
    /\ UNCHANGED <<img, orig, scribbles, decompressed, chunk_tree_cache, notCodec>>

\* bin/main.rs:52-57: a compressed image read from a file
ReadCompressed ==
    /\ cpc = "start"
    /\ img = orig
    /\ compressed' \in Testcases(img)
    /\ source' = "file"
    /\ cpc' = "compressed"
    /\ UNCHANGED <<img, orig, cres, scribbles, decompressed, chunk_tree_cache,
                   panicked, notCodec>>

\* mutator/src/lib.rs:93-94: the payload changes, the metadata does not
Mutate ==
    /\ cpc = "compressed"
    /\ Len(scribbles) < MaxScribbles
    /\ \E i \in MutateAt, v \in MutateBytes :
          /\ i < Len(compressed.data)
          /\ At(compressed.data, i) # v
          /\ compressed' = [compressed EXCEPT !.data[i + 1] = v]
          /\ scribbles' = Append(scribbles, i)
    /\ UNCHANGED <<img, orig, cpc, cres, source, decompressed, chunk_tree_cache,
                   panicked, notCodec>>

\* lib.rs:76-145
Decompress ==
    /\ cpc = "compressed"
    /\ decompressed' \in decompress(compressed)
    /\ cpc' = "done"
    /\ panicked' = (decompressed'.kind = "panic")
    /\ UNCHANGED <<img, orig, cres, compressed, source, scribbles, chunk_tree_cache,
                   notCodec>>

CodecInit ==
    /\ \E p \in MkfsParams :
          /\ orig = MkfsImage(p)
          /\ img \in InputImages(MkfsImage(p))
    /\ cpc = "start"
    /\ cres = "none"
    /\ compressed = DefaultCompressed
    /\ source = "none"
    /\ scribbles = <<>>
    /\ decompressed = NoOutput

CodecNext ==
    \/ ParseSuperblock
    \/ BootstrapChunkTree
    \/ ReadChunkTree
    \/ Compress
    \/ ReadCompressed
    \/ Mutate
    \/ Decompress

InitCodec ==
    CodecInit /\ CtcInit /\ RunnerIdle /\ MutatorIdle /\ FoldIdle
    /\ MounterIdle /\ TestcaseIdle

SpecCodec == InitCodec /\ [][CodecNext]_vars

----------------------------------------------------------------------------
(***************************************************************************)
(* Properties of the codec, checked under SpecCodec.                       *)
(***************************************************************************)

\* The image given to compress is the one mkfs wrote, with a log tree, so
\* that every address the walker follows (superblock.root, the root items'
\* bytenr, the key pointers, superblock.log_root) is mapped by a chunk.
WellFormedInput == img = orig /\ Sb(orig, "log_root") # 0

\* compress(img) ended without a compressed image
CompressFailed == cpc = "failed"

\* decompress ran on what compress(img) returned, untouched
RoundTripDone == cpc = "done" /\ source = "compress" /\ scribbles = <<>>

\* C1 (as claimed): for every well-formed image I, decompress(compress(I))
\* succeeds and returns an image equal to I cell for cell.
C1_RoundTrip ==
    WellFormedInput =>
        /\ ~CompressFailed
        /\ RoundTripDone => decompressed = [kind |-> "ok", image |-> img]

\* C9 (as claimed): in every state reached while Btrfs::new bootstraps the
\* cache from sys_chunk_array and then extends it from the chunk tree, no two
\* entries of the cache have overlapping ranges; a chunk listed both in
\* sys_chunk_array and in a chunk-tree leaf contributes a single entry.
C9_CacheRangesNeverOverlap ==
    cpc \in {"bootstrap", "read_chunk_tree", "compress", "failed"} =>
        \A i \in 1..Len(chunk_tree_cache), j \in 1..Len(chunk_tree_cache) :
            i # j => ~SharesAddress(chunk_tree_cache[i], chunk_tree_cache[j])

\* the payload was changed only inside the magic of the superblock extent,
\* which compress() lays first in `data`
OnlyMagicScribbled ==
    /\ source = "compress"
    /\ scribbles # <<>>
    /\ \A k \in 1..Len(scribbles) :
          /\ scribbles[k] >= SuperblockField.magic
          /\ scribbles[k] < SuperblockField.magic + Len(BTRFS_SUPERBLOCK_MAGIC)

\* C10 (as claimed): whenever decompress succeeds, the primary superblock of
\* its output carries the canonical magic, whatever the payload laid down
\* there; in particular, corrupting only the magic bytes of the superblock
\* extent inside compress(I) still decompresses to the original image I.
C10_DecoderRestoresMagic ==
    cpc = "done" =>
        /\ decompressed.kind = "ok" => SbMagic(decompressed.image) = BTRFS_SUPERBLOCK_MAGIC
        /\ (WellFormedInput /\ OnlyMagicScribbled) =>
               decompressed = [kind |-> "ok", image |-> orig]

\* img is orig with the 8 bytes of its superblock magic replaced by others
MagicCorrupted ==
    /\ Len(img) = Len(orig)
    /\ SbMagic(img) # BTRFS_SUPERBLOCK_MAGIC
    /\ Splice(img, BTRFS_SUPERBLOCK_OFFSET + SuperblockField.magic,
              BTRFS_SUPERBLOCK_OFFSET + SuperblockField.magic + Len(BTRFS_SUPERBLOCK_MAGIC),
              BTRFS_SUPERBLOCK_MAGIC) = orig

\* C11 (as claimed): if I' is a well-formed image I whose superblock magic
\* has been replaced by any other 8 bytes, compress(I') succeeds and
\* decompress(compress(I')) equals the original I.
C11_MagicRecoveredThroughCodec ==
    (MagicCorrupted /\ Sb(orig, "log_root") # 0) =>
        /\ ~CompressFailed
        /\ RoundTripDone => decompressed = [kind |-> "ok", image |-> orig]

\* C11 (amended): if I' is an image I whose superblock magic has been
\* replaced by any other 8 bytes, compress(I') returns an error before the
\* chunk tree is bootstrapped and produces no compressed image.
C11_CorruptMagicIsRefused ==
    MagicCorrupted =>
        /\ cpc \in {"start", "failed"}
        /\ cpc = "failed" => cres = "err"
        /\ compressed = DefaultCompressed
        /\ chunk_tree_cache = <<>>

C11_Witness == MagicCorrupted /\ cpc = "failed" /\ cres = "err"

\* the extents of the compressed image that ask for a checksum fix-up
FixupIndexes == {k \in 1..Len(compressed.metadata) : compressed.metadata[k].needs_csum_fixup}

\* the block the k-th extent's checksum covers, checksum field included
CsumBlockLo(k) == compressed.metadata[k].offset
CsumBlockHi(k) ==
    compressed.metadata[k].offset
        + (IF compressed.metadata[k].offset
                \in {BTRFS_SUPERBLOCK_OFFSET, BTRFS_SUPERBLOCK_OFFSET2,
                     BTRFS_SUPERBLOCK_OFFSET3}
           THEN BTRFS_SUPERBLOCK_SIZE
           ELSE compressed.node_size)

CsumBlocksDisjoint ==
    \A k, j \in FixupIndexes :
        k < j => (CsumBlockHi(k) <= CsumBlockLo(j) \/ CsumBlockHi(j) <= CsumBlockLo(k))

\* C12: when decompress returns an image and the checksummed blocks do not
\* overlap, for every extent with needs_csum_fixup the digest at the start of
\* its block in the output is the CRC32C (seed 0) of the output from the end
\* of the checksum field to the end of the block, where the block is the
\* superblock size at the three superblock offsets and node_size elsewhere;
\* the checksum is that of the final bytes, all extents laid and the magic
\* rewritten.
C12_FixupChecksumsMatchOutput ==
    (cpc = "done" /\ decompressed.kind = "ok" /\ CsumBlocksDisjoint) =>
        \A k \in FixupIndexes :
            At(decompressed.image, CsumBlockLo(k))
                = crc32c_append(BTRFS_CSUM_CRC32_SEED,
                                Slice(decompressed.image,
                                      CsumBlockLo(k) + BTRFS_CSUM_SIZE, CsumBlockHi(k)))

\* a superblock and a tree block are both fixed up after the fuzzer changed
\* the payload
C12_Witness ==
    /\ cpc = "done" /\ decompressed.kind = "ok" /\ CsumBlocksDisjoint
    /\ scribbles # <<>>
    /\ \E k, j \in FixupIndexes :
          /\ CsumBlockLo(k) = BTRFS_SUPERBLOCK_OFFSET
          /\ CsumBlockLo(j) # BTRFS_SUPERBLOCK_OFFSET

\* the sizes of the first n extents added up
RECURSIVE SizeOfFirst(_, _)
SizeOfFirst(extents, n) ==
    IF n = 0 THEN 0 ELSE SizeOfFirst(extents, n - 1) + extents[n].size

\* the extents of the compressed image that cover cell i of the output
Covering(i) ==
    {k \in 1..Len(compressed.metadata) :
        /\ compressed.metadata[k].offset <= i
        /\ i < compressed.metadata[k].offset + compressed.metadata[k].size}

Latest(ks) == CHOOSE k \in ks : \A j \in ks : j <= k

\* cell i of the base with the extents laid over it in list order: the byte
\* of the last extent that covers it, the base's own byte under no extent
OverlayAt(base, i) ==
    IF Covering(i) = {} THEN At(base, i)
    ELSE LET k == Latest(Covering(i)) IN
         At(compressed.data,
            SizeOfFirst(compressed.metadata, k - 1) + (i - compressed.metadata[k].offset))

InMagic(i) ==
    /\ BTRFS_SUPERBLOCK_OFFSET + SuperblockField.magic <= i
    /\ i < BTRFS_SUPERBLOCK_OFFSET + SuperblockField.magic + Len(BTRFS_SUPERBLOCK_MAGIC)

InFixupDigest(i) ==
    \E k \in FixupIndexes :
        /\ compressed.metadata[k].offset <= i
        /\ i < compressed.metadata[k].offset + CSUM_DIGEST_SIZE

\* the output is as long as the base and differs from the overlay only in
\* the magic and in the digests of the extents that ask for a fix-up
FrameOver(base) ==
    /\ Len(decompressed.image) = Len(base)
    /\ \A i \in 0..(Len(base) - 1) :
          At(decompressed.image, i) # OverlayAt(base, i) => (InMagic(i) \/ InFixupDigest(i))

\* C13: the image decompress returns equals the decoded base with the
\* metadata extents laid over it in list order (a later extent overwrites an
\* earlier one where they overlap), except in the 8 bytes of the superblock
\* magic and in the digest at the start of each extent with
\* needs_csum_fixup; it is as long as the decoded base.
C13_DecoderFrame ==
    (cpc = "done" /\ decompressed.kind = "ok") =>
        \E d \in decode_all(compressed.base) : d.ok /\ FrameOver(d.image)

\* two extents, the second laid inside the first, a payload cell the fuzzer
\* changed, and a cell of the output that a fix-up changed
C13_Witness ==
    /\ cpc = "done" /\ decompressed.kind = "ok"
    /\ scribbles # <<>>
    /\ \E i \in 0..(Len(decompressed.image) - 1) :
          /\ Cardinality(Covering(i)) = 2
          /\ \E d \in decode_all(compressed.base) :
                d.ok /\ At(decompressed.image, i) # OverlayAt(d.image, i)

\* compress(img) returned a compressed image (the fuzzer may have changed
\* payload cells since)
CompressorBuilt == source = "compress" /\ cpc \in {"compressed", "done"}

\* C14: in every compressed image built by the compressor the extents'
\* sizes add up to the length of `data`, and the bytes of extent i, the
\* image's bytes at the extent's offset, are data[s .. s + size_i) where s is
\* the sum of the sizes of the extents before i.
C14_EnvelopeConsistent ==
    CompressorBuilt =>
        /\ SizeOfFirst(compressed.metadata, Len(compressed.metadata)) = Len(compressed.data)
        /\ scribbles = <<>> =>
              \A k \in 1..Len(compressed.metadata) :
                  LET m == compressed.metadata[k]
                      s == SizeOfFirst(compressed.metadata, k - 1)
                  IN Slice(compressed.data, s, s + m.size)
                        = Slice(img, m.offset, m.offset + m.size)

\* the walker recorded the superblock, the root leaf, an internal node and
\* leaves of different sizes
C14_Witness ==
    /\ CompressorBuilt /\ scribbles = <<>>
    /\ Len(compressed.metadata) >= 4
    /\ \E k, j \in 1..Len(compressed.metadata) :
          /\ k # 1 /\ j # 1
          /\ compressed.metadata[k].size # compressed.metadata[j].size

\* extents k and j of the compressed image share a cell of the image
ExtentsOverlap(k, j) ==
    /\ compressed.metadata[k].offset
          < compressed.metadata[j].offset + compressed.metadata[j].size
    /\ compressed.metadata[j].offset
          < compressed.metadata[k].offset + compressed.metadata[k].size

\* C15 (as claimed): in the output of compress no two metadata extents
\* overlap, for every image compress accepts, a tree block referenced from
\* more than one parent or root item included.
C15_ExtentsNeverOverlap ==
    CompressorBuilt =>
        \A k, j \in 1..Len(compressed.metadata) : k < j => ~ExtentsOverlap(k, j)

----------------------------------------------------------------------------
(***************************************************************************)
(* mutator/src/lib.rs: the AFL++ custom mutator. The buffers are           *)
(* MessagePack as rmp_serde writes a struct: an array of its fields.       *)
(***************************************************************************)

\* the MessagePack markers the buffers use
Marker == [fixarray |-> 144, false |-> 194, true |-> 195, u8 |-> 204, u16 |-> 205]

\* an unsigned integer in the shortest form that holds it
write_uint(v) ==
    IF v < 128 THEN <<v>>
    ELSE IF v < 256 THEN <<Marker.u8, v>>
    ELSE <<Marker.u16, v \div 256, v % 256>>

\* Vec<u8>: an array of integers
RECURSIVE write_bytes(_)
write_bytes(bs) ==
    IF bs = <<>> THEN <<>> ELSE write_uint(Head(bs)) \o write_bytes(Tail(bs))

\* Vec<MetadataExtent>: each extent the array of its three fields
RECURSIVE write_extents(_)
write_extents(ms) ==
    IF ms = <<>> THEN <<>>
    ELSE <<Marker.fixarray + 3,
           IF Head(ms).needs_csum_fixup THEN Marker.true ELSE Marker.false>>
         \o write_uint(Head(ms).offset) \o write_uint(Head(ms).size)
         \o write_extents(Tail(ms))

\* lib.rs:99-101: CompressedBtrfsImage::serialize into fuzz_buf
serialize(c) ==
    <<Marker.fixarray + 4>>
    \o <<Marker.fixarray + Len(c.base)>> \o write_bytes(c.base)
    \o <<Marker.fixarray + Len(c.metadata)>> \o write_extents(c.metadata)
    \o <<Marker.fixarray + Len(c.data)>> \o write_bytes(c.data)
    \o write_uint(c.node_size)

\* what a read of one value gives: the value and the bytes after it
Parsed(v, rest) == [ok |-> TRUE, val |-> v, rest |-> rest]
ParseErr == [ok |-> FALSE, val |-> 0, rest |-> <<>>]

\* an unsigned integer of a type that holds values up to `limit`
read_uint(s, limit) ==
    IF s = <<>> THEN ParseErr
    ELSE IF s[1] < 128 THEN Parsed(s[1], Tail(s))
    ELSE IF s[1] = Marker.u8 /\ Len(s) >= 2 THEN Parsed(s[2], SubSeq(s, 3, Len(s)))
    ELSE IF s[1] = Marker.u16 /\ Len(s) >= 3 /\ s[2] * 256 + s[3] <= limit
         THEN Parsed(s[2] * 256 + s[3], SubSeq(s, 4, Len(s)))
    ELSE ParseErr

\* the header of an array of fewer than 16 elements
read_array_len(s) ==
    IF s # <<>> /\ s[1] >= Marker.fixarray /\ s[1] < Marker.fixarray + 16
    THEN Parsed(s[1] - Marker.fixarray, Tail(s))
    ELSE ParseErr

\* n elements of a Vec<u8> after acc
RECURSIVE read_bytes(_, _, _)
read_bytes(s, n, acc) ==
    IF n = 0 THEN Parsed(acc, s)
    ELSE IF ~read_uint(s, 255).ok THEN ParseErr
    ELSE read_bytes(read_uint(s, 255).rest, n - 1, Append(acc, read_uint(s, 255).val))

\* Vec<u8>
read_vec_u8(s) ==
    IF ~read_array_len(s).ok THEN ParseErr
    ELSE read_bytes(read_array_len(s).rest, read_array_len(s).val, <<>>)

\* MetadataExtent: bool, u64, u64
read_extent(s) ==
    LET fix == IF Len(s) >= 2 /\ s[1] = Marker.fixarray + 3
                  /\ s[2] \in {Marker.true, Marker.false}
               THEN Parsed(s[2] = Marker.true, SubSeq(s, 3, Len(s)))
               ELSE ParseErr
        off == IF fix.ok THEN read_uint(fix.rest, 65535) ELSE ParseErr
        size == IF off.ok THEN read_uint(off.rest, 65535) ELSE ParseErr
    IN
    IF size.ok
    THEN Parsed([needs_csum_fixup |-> fix.val, offset |-> off.val, size |-> size.val],
                size.rest)
    ELSE ParseErr

\* n elements of a Vec<MetadataExtent> after acc
RECURSIVE read_extents(_, _, _)
read_extents(s, n, acc) ==
    IF n = 0 THEN Parsed(acc, s)
    ELSE IF ~read_extent(s).ok THEN ParseErr
    ELSE read_extents(read_extent(s).rest, n - 1, Append(acc, read_extent(s).val))

\* lib.rs:84-85: rmp_serde::decode::from_read_ref::<CompressedBtrfsImage>.
\* The struct is an array of its four fields; what follows it is not read.
from_read_ref(s) ==
    LET hdr == read_array_len(s)
        base == IF hdr.ok /\ hdr.val = 4 THEN read_vec_u8(hdr.rest) ELSE ParseErr
        n == IF base.ok THEN read_array_len(base.rest) ELSE ParseErr
        metadata == IF n.ok THEN read_extents(n.rest, n.val, <<>>) ELSE ParseErr
        data == IF metadata.ok THEN read_vec_u8(metadata.rest) ELSE ParseErr
        node_size == IF data.ok THEN read_uint(data.rest, 65535) ELSE ParseErr
    IN
    IF node_size.ok
    THEN Parsed([base |-> base.val, metadata |-> metadata.val, data |-> data.val,
                 node_size |-> node_size.val], <<>>)
    ELSE ParseErr

\* How many times afl_custom_fuzz is called in a behaviour.
MaxMutations == 2

\* the byte values the engine writes
EngineBytes == {0, 200}

\* fuzzmutator's MutatorEngine::mutate(&mut data): any bytes in place of the
\* payload, of the same length or, should the engine append, one longer
EngineOutputs(payload) ==
    {s \in UNION {[1..k -> EngineBytes] : k \in {Len(payload), Len(payload) + 1}} : TRUE}

\* Mutant of mutate_payload: the engine is given the extent list as well.
mutate_payload_AndExtents(c, new) ==
    [c EXCEPT !.data = new,
              !.metadata = [k \in DOMAIN @ |-> [@[k] EXCEPT !.needs_csum_fixup = FALSE]]]

\* lib.rs:93-94: the engine works on `data` alone
mutate_payload(c, new) == [c EXCEPT !.data = new]

\* Mutant of WithinMaxSize: the assertions are compiled out.
WithinMaxSize_Unchecked(len, max) == TRUE

\* lib.rs:96, 108: the condition of the two assert!s
WithinMaxSize(len, max) == len <= max

\* the compressed images AFL's queue holds, serialized
MutatorImages ==
    [base : {<<40>>},
     metadata : {<<>>, <<Extent(TRUE, 2, 2)>>,
                 <<Extent(FALSE, 200, 1), Extent(TRUE, 0, 1)>>},
     data : {<<>>, <<7, 200>>},
     node_size : {18, 4096}]

\* the buffers AFL hands to afl_custom_fuzz: serialized images, and buffers
\* that are no CompressedBtrfsImage (empty, nil, a struct of three fields, an
\* extent of two fields, a buffer cut short)
MutatorInputs ==
    {serialize(c) : c \in MutatorImages}
    \cup {<<>>, <<192>>, <<147, 144, 144, 144>>, <<148, 144, 145, 146, 195, 2, 144, 18>>,
          <<148, 145, 40, 144, 146, 7>>}

MaxSizes == {4, 12, 64}

\* lib.rs:71-114
AflCustomFuzz ==
    /\ mpc = "ready"
    /\ mutations' = mutations + 1
    /\ LET d == from_read_ref(in_buf) IN
       IF ~d.ok
       THEN /\ out_buf' = Null
            /\ fuzz_ret' = 0
            /\ engine_ran' = FALSE
            /\ mpc' = "returned"
            /\ UNCHANGED fuzz_buf
       ELSE \E new \in EngineOutputs(d.val.data) :
               LET mutated == mutate_payload(d.val, new) IN
               /\ engine_ran' = TRUE
               /\ IF ~WithinMaxSize(Len(mutated.data) + Len(mutated.metadata), max_size)
                  THEN /\ mpc' = "aborted"
                       /\ UNCHANGED <<fuzz_buf, out_buf, fuzz_ret>>
                  ELSE /\ fuzz_buf' = serialize(mutated)
                       /\ IF ~WithinMaxSize(Len(fuzz_buf'), max_size)
                          THEN /\ mpc' = "aborted"
                               /\ UNCHANGED <<out_buf, fuzz_ret>>
                          ELSE /\ out_buf' = [null |-> FALSE]
                               /\ fuzz_ret' = Len(fuzz_buf')
                               /\ mpc' = "returned"
    /\ UNCHANGED <<in_buf, max_size, seed_buf, notMutator>>

\* AFL's next call: on the buffer the last call returned, or on another
\* entry of its queue
AflNextInput ==
    /\ mpc = "returned"
    /\ mutations < MaxMutations
    /\ \/ /\ ~out_buf.null
          /\ in_buf' = fuzz_buf
          /\ UNCHANGED seed_buf
       \/ /\ in_buf' \in MutatorInputs
          /\ seed_buf' = in_buf'
    /\ mpc' = "ready"
    /\ UNCHANGED <<max_size, out_buf, fuzz_ret, fuzz_buf, engine_ran, mutations,
                   notMutator>>

MutatorInit ==
    /\ seed_buf \in MutatorInputs
    /\ in_buf = seed_buf
    /\ max_size \in MaxSizes
    /\ out_buf = Null
    /\ fuzz_ret = 0
    /\ fuzz_buf = <<>>
    /\ engine_ran = FALSE
    /\ mutations = 0
    /\ mpc = "ready"

MutatorNext == AflCustomFuzz \/ AflNextInput

InitMutator ==
    MutatorInit /\ CtcInit /\ RunnerIdle /\ CodecIdle /\ FoldIdle
    /\ MounterIdle /\ TestcaseIdle

SpecMutator == InitMutator /\ [][MutatorNext]_vars

\* the last call returned a buffer
Returned == mpc = "returned" /\ ~out_buf.null

\* C16: for every input that deserializes, the buffer afl_custom_fuzz
\* returns deserializes to an image whose extent list, base and node_size
\* equal those of the input, and those of the buffer a chain of successive
\* mutations started from.
C16_MutatorKeepsMetadata ==
    Returned =>
        LET o == from_read_ref(fuzz_buf)
            i == from_read_ref(in_buf)
            first == from_read_ref(seed_buf)
        IN
        /\ o.ok /\ i.ok /\ first.ok
        /\ o.val.metadata = i.val.metadata /\ o.val.metadata = first.val.metadata
        /\ o.val.base = i.val.base /\ o.val.base = first.val.base
        /\ o.val.node_size = i.val.node_size /\ o.val.node_size = first.val.node_size

\* the second mutation in a row of an image with extents that ask for a
\* fix-up, its payload changed both times
C16_Witness ==
    /\ Returned
    /\ mutations = 2
    /\ in_buf # seed_buf
    /\ fuzz_buf # in_buf
    /\ \E k \in DOMAIN from_read_ref(fuzz_buf).val.metadata :
          from_read_ref(fuzz_buf).val.metadata[k].needs_csum_fixup

\* C17: when the input buffer does not deserialize, afl_custom_fuzz returns
\* size 0 and writes a null output pointer without invoking the engine; when
\* it writes a non-null pointer, the size it returns is the length of the
\* buffer and at most max_size.
C17_MutatorErrorOutcome ==
    mpc = "returned" =>
        /\ ~from_read_ref(in_buf).ok =>
              (fuzz_ret = 0 /\ out_buf = Null /\ ~engine_ran)
        /\ ~out_buf.null => (fuzz_ret = Len(fuzz_buf) /\ fuzz_ret <= max_size)

\* a buffer that does not deserialize, after a call that returned a buffer
C17_Witness ==
    /\ mpc = "returned"
    /\ in_buf # <<>>
    /\ ~from_read_ref(in_buf).ok
    /\ out_buf = Null /\ fuzz_ret = 0
    /\ fuzz_buf # <<>>

----------------------------------------------------------------------------
(***************************************************************************)
(* Properties of the forkserver shim, checked under SpecRunner.            *)
(***************************************************************************)

\* Forkserver::new returned Ok
Constructed == shared_mem # "none"

\* a new_run() or report() call was made in this step
ForkserverCalled == Len(calls') = Len(calls) + 1

DisabledIsSilent ==
    /\ Constructed => (fs_disabled <=> (env.no_forksrv \/ ~env.shm_id))
    /\ (Constructed /\ fs_disabled) =>
          /\ io = <<>>
          /\ shared_mem = (IF env.shm_id THEN "Shm" ELSE "Anon")
          /\ Forked => (pc = "report" => \E i \in 1..Len(trace) : trace[i].op = "fold")

DisabledCallIsNoOp ==
    (fs_disabled /\ ForkserverCalled) =>
        /\ io' = io
        /\ result' = result
        /\ pc' \in {"get_testcase", "new_run"}

\* C18: the forkserver is disabled exactly when AFL_NO_FORKSRV is set or
\* __AFL_SHM_ID is absent; when it is disabled nothing is read from fd 198 or
\* written to fd 199 (no hello word, and new_run() and report() return Ok
\* without any I/O), while the edge bitmap buffer exists (AFL's segment when
\* there is one, a private buffer otherwise) and the trace of every executed
\* testcase is still folded into it.
C18_DisabledForkserver == []DisabledIsSilent /\ [][DisabledCallIsNoOp]_vars

\* AFL_NO_FORKSRV set next to an __AFL_SHM_ID: two iterations ran, one
\* executed testcase was folded and reported, with no I/O at all
C18_Witness ==
    /\ Constructed /\ fs_disabled
    /\ env.shm_id /\ env.no_forksrv
    /\ runs = 2 /\ count = 1 /\ Len(calls) = 4
    /\ io = <<>>

HelloEvents == {i \in 1..Len(io) : io[i].ev = "hello"}

\* C19: with the forkserver enabled exactly one hello word is written to fd
\* 199, before any per-run message; its value is ENABLED | MAPSIZE |
\* ((map_size - 1) << 1) = 0x80000001 | 0x40000000 | (65535 << 1) =
\* 0xC001FFFF, and for the map size 65536 the shift loses no bit.
C19_HelloWord ==
    /\ HelloEvents \subseteq {1}
    /\ io # <<>> =>
          /\ HelloEvents = {1}
          /\ io[1].fd = AFL_FORKSERVER_READ_FD + 1
          /\ io[1].val = Word32(49153, 65535)
          /\ Len(io) > 1 => io[1].n = 4
    /\ (Constructed /\ ~fs_disabled) => (HelloEvents = {1} /\ io[1].n = 4)
    /\ forkserver_opt_set_mapsize(AFL_MAP_SIZE) = ToWord32(2 * (AFL_MAP_SIZE - 1))

\* the hello word, then the three messages of an iteration
C19_Witness ==
    /\ Constructed /\ ~fs_disabled
    /\ Len(io) = 4
    /\ io[1].ev = "hello" /\ io[1].n = 4
    /\ io[4].ev = "status"

----------------------------------------------------------------------------
(***************************************************************************)
(* runner/main.rs:356-384: the fold of a testcase's kcov trace into the    *)
(* edge bitmap. SpecFold runs the loop on one kcov buffer after another.   *)
(***************************************************************************)

\* How many testcases are folded in a behaviour.
MaxFolds == 2

\* kcov.rs:13, scaled: the words of the kcov buffer, the count in word 0
COVER_SIZE == 3

\* main.rs:365
PREV_LOC_INIT == 57005

\* main.rs:376
U8_MAX == 255

\* Bitwise exclusive or of two naturals.
RECURSIVE BitXor(_, _)
BitXor(a, b) ==
    IF a = 0 THEN b
    ELSE IF b = 0 THEN a
    ELSE ((a + b) % 2) + 2 * BitXor(a \div 2, b \div 2)

\* Mutant of Mixed: the PC is not masked to 16 bits.
Mixed_NoMask(current_loc, prev_loc) == BitXor(current_loc, prev_loc)

\* main.rs:370: (current_loc & 0xFFFF) ^ prev_loc
Mixed(current_loc, prev_loc) == BitXor(current_loc % 65536, prev_loc)

\* main.rs:371 without the shift
NextPrev_NoShift(current_loc) == current_loc % 65536

\* main.rs:371: (current_loc & 0xFFFF) >> 1
NextPrev(current_loc) == (current_loc % 65536) \div 2

\* Mutant of saturating_inc: the byte wraps.
saturating_inc_Wrapping(b) == (b + 1) % (U8_MAX + 1)

\* main.rs:374-379: overflowing_add(1), u8::MAX on overflow
saturating_inc(b) ==
    LET val == (b + 1) % (U8_MAX + 1)
        overflow == b + 1 > U8_MAX
    IN IF overflow THEN U8_MAX ELSE val

\* main.rs:368: the word of the kcov buffer iteration i reads, coverage[i + 1]
PcWord(i) == i + 1

\* main.rs:366-384: the loop from iteration i on; cov[1] is coverage[0] and
\* cov[w + 1] is coverage[w]
RECURSIVE fold_loop(_, _, _, _)
fold_loop(shm, cov, i, prev_loc) ==
    IF i >= cov[1] THEN shm
    ELSE fold_loop([shm EXCEPT ![Mixed(cov[PcWord(i) + 1], prev_loc)] = saturating_inc(@)],
                   cov, i + 1, NextPrev(cov[PcWord(i) + 1]))

\* main.rs:366-368: the words of the kcov buffer the loop loads as PCs, from
\* iteration i on
RECURSIVE fold_reads(_, _)
fold_reads(cov, i) ==
    IF i >= cov[1] THEN {}
    ELSE {PcWord(i)} \cup fold_reads(cov, i + 1)

\* what the kcov buffer holds after a child: the count of PCs traced and the
\* PCs, kernel text addresses of which the fold keeps the low 16 bits
\* (0x1DEAD, 0x6F56); words past the count are left from earlier children
KcovBuffers ==
    {<<size>> \o pcs : size \in 0..(COVER_SIZE - 1),
                       pcs \in [1..(COVER_SIZE - 1) -> {122541, 28502}]}

\* the bytes of the bitmap the fold can write for these PCs; it touches no
\* other byte of the map
BitmapCells ==
    {Mixed(p, q) : p \in {122541, 28502},
                   q \in {PREV_LOC_INIT, NextPrev(122541), NextPrev(28502)}}

\* main.rs:356-384
FoldTrace ==
    /\ folds < MaxFolds
    /\ folds' = folds + 1
    /\ kcov' \in KcovBuffers
    /\ shmem' = fold_loop(shmem, kcov', 0, PREV_LOC_INIT)
    /\ UNCHANGED notFold

\* the bitmap when a testcase is folded: the counts earlier testcases left
FoldInit ==
    /\ shmem \in [BitmapCells -> {0, U8_MAX - 1, U8_MAX}]
    /\ kcov = <<0>> \o [k \in 1..(COVER_SIZE - 1) |-> 0]
    /\ folds = 0

InitFold ==
    FoldInit /\ CtcInit /\ RunnerIdle /\ CodecIdle /\ MutatorIdle
    /\ MounterIdle /\ TestcaseIdle

SpecFold == InitFold /\ [][FoldTrace]_vars

\* the indexes the fold of a kcov buffer increments, in order
RECURSIVE FoldIndexes(_, _, _)
FoldIndexes(cov, i, prev_loc) ==
    IF i >= cov[1] THEN <<>>
    ELSE <<Mixed(cov[i + 2], prev_loc)>> \o FoldIndexes(cov, i + 1, NextPrev(cov[i + 2]))

\* how many times the fold of a kcov buffer increments byte c
Hits(c, cov) ==
    Cardinality({k \in DOMAIN FoldIndexes(cov, 0, PREV_LOC_INIT) :
                    FoldIndexes(cov, 0, PREV_LOC_INIT)[k] = c})

BytesInRange == \A c \in DOMAIN shmem : shmem[c] \in 0..U8_MAX

SaturatingFold ==
    \A c \in DOMAIN shmem :
        shmem'[c] = IF shmem[c] + Hits(c, kcov') > U8_MAX
                    THEN U8_MAX
                    ELSE shmem[c] + Hits(c, kcov')

\* C20: over any number of PCs and testcases every byte of the edge bitmap
\* is a saturating counter: each increment adds exactly 1 to a byte below
\* 255 and leaves a byte at 255, so a byte incremented h times goes from v
\* to v + h or stops at 255, and never wraps to 0.
C20_EdgeMapSaturates == []BytesInRange /\ [][SaturatingFold]_vars

\* a testcase whose two PCs fall on the same byte, which ends at 255: it held
\* 254 or 255 before
C20_Witness ==
    /\ folds = MaxFolds
    /\ \E c \in DOMAIN shmem : shmem[c] = U8_MAX /\ Hits(c, kcov) = 2

\* ---------------------------------------------------------------------------
\* The mount harness (runner/mount.rs): one process, one Mounter, one loop
\* device. The kernel's answers (attach, mount, unmount, detach succeed or
\* fail) are inputs of the calls.
\* ---------------------------------------------------------------------------

\* calls of Mounter::mount in one behaviour
MaxMounts == 3

\* One call on the loop device, the mount point or the flag: what it was,
\* whether it succeeded, and the kernel's state when it was issued.
Op(op, ok, m) == [op |-> op, ok |-> ok, mounted |-> m.mounted, loop |-> m.loop]

\* LoopDevice::attach_file (mount.rs:47): LOOP_SET_FD is refused with EBUSY
\* on a device that already has a backing file
attach_file(m, k) ==
    LET ok == k /\ ~m.loop IN
    [m EXCEPT !.ops = Append(@, Op("attach", ok, m)), !.loop = @ \/ ok]

\* sys_mount::Mount::new (mount.rs:52): mount(2) of the loop device
sys_mount_new(m, k) ==
    LET ok == k /\ m.loop IN
    [m EXCEPT !.ops = Append(@, Op("mount", ok, m)), !.mounted = @ \/ ok]

\* sys_mount's unmount (mount.rs:101): umount(2)
unmount(m, k) ==
    LET ok == k /\ m.mounted IN
    [m EXCEPT !.ops = Append(@, Op("unmount", ok, m)), !.mounted = @ /\ ~ok]

\* LoopDevice::detach (mount.rs:73, 84, 102): LOOP_CLR_FD. A device a mount
\* still holds keeps its backing file (the kernel answers EBUSY, or defers
\* the release to the last close).
detach(m, k) ==
    LET ok == k /\ m.loop IN
    [m EXCEPT !.ops = Append(@, Op("detach", ok, m)),
              !.loop = @ /\ ~(ok /\ ~m.mounted)]

\* attached.store (mount.rs:50, 74, 103)
store(m, v) ==
    [m EXCEPT !.attached = v,
              !.ops = Append(@, Op(IF v THEN "set_attached" ELSE "clear_attached", TRUE, m))]

LastOk(m) == m.ops[Len(m.ops)].ok

Returns(m, r) == [m EXCEPT !.ret = r]

\* mount.rs:43 with the flag check gone
Refuses_Never(m) == FALSE

\* mount.rs:43: `if self.attached.load(..)`
Refuses(m) == m.attached

\* mount.rs:70-75 without the detach and the store
OnMountErr_KeepAttached(m, kd) == Returns(m, "MountErr")

\* mount.rs:70-75, the Err arm: `detach()?`, clear the flag, return the
\* mount error
OnMountErr(m, kd) ==
    IF ~LastOk(detach(m, kd))
    THEN Returns(detach(m, kd), "DetachErr")
    ELSE Returns(store(detach(m, kd), FALSE), "MountErr")

\* mount.rs:52-76: path() of the loop device, mount(2), and the match
MountAttached(m, kp, km, kd) ==
    IF ~kp THEN Returns(m, "PathErr")
    ELSE IF LastOk(sys_mount_new(m, km))
    THEN [Returns(sys_mount_new(m, km), "Ok") EXCEPT !.handle = TRUE]
    ELSE OnMountErr(sys_mount_new(m, km), kd)

\* Mounter::mount (mount.rs:39-77). ka, kp, km, kd: whether attach_file,
\* path(), mount(2) and detach succeed when they are reached.
Mounter_mount(m, ka, kp, km, kd) ==
    IF Refuses(m) THEN Returns(m, "Refused")
    ELSE IF ~LastOk(attach_file(m, ka))
    THEN Returns(attach_file(m, ka), "AttachErr")
    ELSE MountAttached(store(attach_file(m, ka), TRUE), kp, km, kd)

\* Drop for Mount (mount.rs:98-105): unmount().unwrap(), detach().unwrap(),
\* then the flag
Mount_drop(m, ku, kd) ==
    LET gone == [m EXCEPT !.handle = FALSE] IN
    IF ~LastOk(unmount(gone, ku))
    THEN Returns(unmount(gone, ku), "Panic")
    ELSE IF ~LastOk(detach(unmount(gone, ku), kd))
    THEN Returns(detach(unmount(gone, ku), kd), "Panic")
    ELSE Returns(store(detach(unmount(gone, ku), kd), FALSE), "Unmounted")

\* mount.rs:80-87 without the look at the flag
Mounter_drop_Always(m, kd) ==
    IF LastOk(detach(m, kd))
    THEN Returns(detach(m, kd), "Dropped")
    ELSE Returns(detach(m, kd), "DropPanic")

\* Drop for Mounter (mount.rs:80-87)
Mounter_drop(m, kd) ==
    IF m.attached
    THEN IF LastOk(detach(m, kd))
         THEN Returns(detach(m, kd), "Dropped")
         ELSE Returns(detach(m, kd), "DropPanic")
    ELSE Returns(m, "Dropped")

\* Mounter::new (mount.rs:18-37): a free loop device, the flag false
NewMounter ==
    [attached |-> FALSE, loop |-> FALSE, mounted |-> FALSE, handle |-> FALSE,
     ops |-> <<>>, ret |-> "New"]

\* a call of Mounter::mount; the borrow of the last Mount has ended
MounterMount ==
    /\ mlife = "alive"
    /\ ~mounter.handle
    /\ mcalls < MaxMounts
    /\ \E ka \in BOOLEAN, kp \in BOOLEAN, km \in BOOLEAN, kd \in BOOLEAN :
           mounter' = Mounter_mount(mounter, ka, kp, km, kd)
    /\ mcalls' = mcalls + 1
    /\ UNCHANGED <<mlife, notMounter>>

\* the Mount goes out of scope
MountDrop ==
    /\ mlife = "alive"
    /\ mounter.handle
    /\ \E ku \in BOOLEAN, kd \in BOOLEAN :
           mounter' = Mount_drop(mounter, ku, kd)
    /\ mlife' = IF mounter'.ret = "Panic" THEN "panicking" ELSE "alive"
    /\ UNCHANGED <<mcalls, notMounter>>

\* the Mounter goes out of scope: at the end of its owner, or while a panic
\* unwinds the owner's frame. A panic during the unwinding aborts.
MounterDrop ==
    /\ mlife \in {"alive", "panicking"}
    /\ ~mounter.handle
    /\ \E kd \in BOOLEAN :
           mounter' = Mounter_drop(mounter, kd)
    /\ mlife' = IF mounter'.ret = "DropPanic"
                THEN (IF mlife = "panicking" THEN "aborted" ELSE "panicked")
                ELSE (IF mlife = "panicking" THEN "panicked" ELSE "dropped")
    /\ UNCHANGED <<mcalls, notMounter>>

\* a build with panic = "abort": the panic in Mount's drop ends the process
\* and no destructor runs
PanicAbort ==
    /\ mlife = "panicking"
    /\ mlife' = "aborted"
    /\ UNCHANGED <<mounter, mcalls, notMounter>>

MounterInit ==
    /\ mounter = NewMounter
    /\ mlife = "alive"
    /\ mcalls = 0

MounterNext == MounterMount \/ MountDrop \/ MounterDrop \/ PanicAbort

InitMounter ==
    MounterInit /\ CtcInit /\ RunnerIdle /\ CodecIdle /\ MutatorIdle /\ FoldIdle
    /\ TestcaseIdle

SpecMounter == InitMounter /\ [][MounterNext]_vars

\* the calls between positions i and j of the log
Between(ops, i, j) == {n \in DOMAIN ops : i < n /\ n < j}

\* the detach calls were all issued on an unmounted device
DetachOnlyUnmounted ==
    \A i \in DOMAIN mounter.ops :
        mounter.ops[i].op = "detach" => ~mounter.ops[i].mounted

\* C21: a dropped Mount unmounts first, detaches only afterwards and clears
\* the flag last, and no detach is ever issued while the filesystem is
\* still mounted.
C21_TeardownOrder ==
    /\ DetachOnlyUnmounted
    /\ \A i \in DOMAIN mounter.ops :
          /\ (mounter.ops[i].op = "clear_attached"
                => i > 1 /\ mounter.ops[i - 1].op = "detach" /\ mounter.ops[i - 1].ok)
          /\ (mounter.ops[i].op = "unmount" /\ mounter.ops[i].ok /\ i < Len(mounter.ops)
                => mounter.ops[i + 1].op = "detach")

\* the teardown of a Mount whose unmount and detach both succeeded
C21_Witness ==
    /\ mounter.ret = "Unmounted"
    /\ ~mounter.attached /\ ~mounter.loop /\ ~mounter.mounted

MountErrDetached ==
    /\ mounter.ret = "MountErr"
         => /\ ~mounter.attached /\ ~mounter.loop /\ ~mounter.mounted
            /\ Len(mounter.ops) >= 3
            /\ mounter.ops[Len(mounter.ops) - 2].op = "mount"
            /\ ~mounter.ops[Len(mounter.ops) - 2].ok
            /\ mounter.ops[Len(mounter.ops) - 1].op = "detach"
            /\ mounter.ops[Len(mounter.ops) - 1].ok
            /\ mounter.ops[Len(mounter.ops)].op = "clear_attached"
    /\ mounter.ret = "DetachErr"
         => /\ mounter.attached /\ mounter.loop
            /\ mounter.ops[Len(mounter.ops)].op = "detach"
            /\ ~mounter.ops[Len(mounter.ops)].ok

\* the call of mount() after one that returned the mount error
NextMountNotRefused ==
    mounter.ret = "MountErr" /\ mcalls' = mcalls + 1
        => /\ mounter'.ret # "Refused"
           /\ Len(mounter'.ops) > Len(mounter.ops)
           /\ mounter'.ops[Len(mounter.ops) + 1].op = "attach"
           /\ ~mounter'.ops[Len(mounter.ops) + 1].loop

RefusedWhenAttached ==
    mounter.attached /\ mcalls' = mcalls + 1
        => /\ mounter'.ret = "Refused"
           /\ mounter'.ops = mounter.ops
           /\ mounter'.attached

\* after an attach that succeeded, attach_file is not called again before a
\* detach is
NoSecondAttach ==
    \A i \in DOMAIN mounter.ops, j \in DOMAIN mounter.ops :
        /\ i < j
        /\ mounter.ops[i].op = "attach" /\ mounter.ops[i].ok
        /\ mounter.ops[j].op = "attach"
        => \E n \in Between(mounter.ops, i, j) : mounter.ops[n].op = "detach"

\* Mounter's drop issues one detach when the flag is set and nothing otherwise
DropDetachesIffAttached ==
    mlife' # mlife /\ mounter'.ret \in {"Dropped", "DropPanic"}
        => IF mounter.attached
           THEN /\ Len(mounter'.ops) = Len(mounter.ops) + 1
                /\ mounter'.ops[Len(mounter'.ops)].op = "detach"
           ELSE mounter'.ops = mounter.ops

\* C26: mount() refuses when the attached flag is set, returning an error
\* without calling attach_file or mount; a process never calls attach_file
\* again after a successful attach without a detach in between; and
\* Mounter's drop detaches exactly when the flag is still set.
C26_AttachedFlagGuards ==
    /\ []NoSecondAttach
    /\ [][RefusedWhenAttached]_vars
    /\ [][DropDetachesIffAttached]_vars

\* mount() was refused: an earlier call left the flag set
C26_Witness ==
    /\ mounter.ret = "Refused"
    /\ mounter.attached
    /\ \E i \in DOMAIN mounter.ops : mounter.ops[i].op = "attach" /\ mounter.ops[i].ok

\* ---------------------------------------------------------------------------
\* One testcase after another (runner/main.rs:305-393), with the child that
\* fork_work_and_wait forks and the kernel objects parent and child share:
\* the loop device and the mount, the kcov buffer, and /dev/kmsg.
\* ---------------------------------------------------------------------------

\* testcases executed in one behaviour
MaxTestcases == 2

\* something a process did for the current testcase
Ev(p, op) == [proc |-> p, op |-> op, ok |-> TRUE]

\* the calls of a Mounter operation, as events of process p
Issued(p, ops) == [i \in DOMAIN ops |-> [proc |-> p, op |-> ops[i].op, ok |-> ops[i].ok]]

\* the Mounter as process p sees it: the flag in its own memory, the loop
\* device and the mount in the kernel
View(p) ==
    [attached |-> flags[p], loop |-> kernel.loop, mounted |-> kernel.mounted,
     handle |-> FALSE, ops |-> <<>>, ret |-> "New"]

\* the kernel after a Mounter operation of some process
KernelAfter(m) == [kernel EXCEPT !.loop = m.loop, !.mounted = m.mounted]

\* __sanitizer_cov_trace_pc, n times for the task of testcase t: a PC goes
\* to word count + 1 while that is inside the buffer, then the count is raised
RECURSIVE kcov_trace(_, _, _)
kcov_trace(c, n, t) ==
    IF n = 0 \/ c.count + 1 >= COVER_SIZE THEN c
    ELSE kcov_trace([count |-> c.count + 1, pcs |-> [c.pcs EXCEPT ![c.count + 1] = t]],
                    n - 1, t)

\* what the kernel traces for the child: nothing unless KCOV_ENABLE bound
\* the buffer to it
Traced(n) == IF kernel.tracing THEN kcov_trace(cover, n, tcase) ELSE cover

\* entries of the kernel log in one behaviour
MaxLog == 1

\* When the kernel logs a line: before the runner opened /dev/kmsg ("old"),
\* while the child of testcase tcase runs ("child"), or at another time
\* ("parent").
Window ==
    IF ppc = "open_kmsg" THEN "old"
    ELSE IF child_pc \in {"enable", "work", "drop", "exit", "unwind"} THEN "child"
    ELSE "parent"

\* printk: one more entry, "BUG" or not; no scan has examined it
Logged(bug) ==
    [kmsg EXCEPT !.log = Append(@, [bug |-> bug, window |-> Window, tcase |-> tcase,
                                    scans |-> {}])]

\* open_kmsg (main.rs:94-102): open, then lseek(fd, 0, SEEK_END) without the seek
open_kmsg_NoSeek(k) == [k EXCEPT !.pos = 0]

\* open_kmsg (main.rs:94-102): open, then lseek(fd, 0, SEEK_END)
open_kmsg(k) == [k EXCEPT !.pos = Len(k.log)]

\* main.rs:109-132 leaving the loop at the first entry that matches
ScanStop_AtMatch(k, errAt) ==
    IF \E i \in (k.pos + 1)..Len(k.log) : k.log[i].bug
    THEN CHOOSE i \in (k.pos + 1)..Len(k.log) :
             k.log[i].bug /\ \A j \in (k.pos + 1)..(i - 1) : ~k.log[j].bug
    ELSE Len(k.log)

\* The last entry one call of kmsg_contains_bug reads (main.rs:109-132): the
\* loop leaves at EAGAIN, which is the end of the log, or at a read error
\* (errAt entries read before it; 0 for none), and not at a match.
ScanStop(k, errAt) ==
    IF errAt > 0 /\ k.pos + errAt - 1 < Len(k.log) THEN k.pos + errAt - 1 ELSE Len(k.log)

\* kmsg_contains_bug (main.rs:104-135): the entries read, each examined for
\* "BUG" / "UBSAN:", the position left behind them
kmsg_scan(k, errAt, t) ==
    [log |-> [i \in DOMAIN k.log |->
                 IF i > k.pos /\ i <= ScanStop(k, errAt)
                 THEN [k.log[i] EXCEPT !.scans = @ \cup {t}]
                 ELSE k.log[i]],
     pos |-> ScanStop(k, errAt)]

ScanFailed(k, errAt) == errAt > 0 /\ k.pos + errAt - 1 < Len(k.log)

ScanFound(k, errAt) == \E i \in (k.pos + 1)..ScanStop(k, errAt) : k.log[i].bug

\* main.rs:270-284: the RunStatus from the scan and the wait status
Verdict(found, how) ==
    IF found THEN "Success"
    ELSE IF how = "exit88" THEN "Success"
    ELSE IF how = "signal" THEN "Failure"
    ELSE "Err"

\* main.rs:268 with WNOHANG: waitpid returns whether or not the child ended
Reaped_NoHang == TRUE

\* main.rs:268: waitpid(child, None) returns when the child has ended
Reaped == child_pc = "dead"

\* main.rs:290-295 returning the error to the caller instead of exiting
OnEnableErr_Return == "returned"

\* main.rs:290-295: the child whose kcov.enable() failed calls exit(EXIT_BAD)
OnEnableErr == "dead"

\* where a running child can be
Alive == {"enable", "work", "drop", "exit", "unwind"}

\* the child is gone: kcov's binding to the task ends with it
ChildEnds(how) ==
    /\ child_pc' = "dead"
    /\ wstatus' = [wstatus EXCEPT !.how = how]

\* ---- the parent ----

\* main.rs:315 (and 309-318: the kcov buffer and the Mounter exist)
OpenKmsg ==
    /\ ppc = "open_kmsg"
    /\ kmsg' = open_kmsg(kmsg)
    /\ ppc' = "next"
    /\ UNCHANGED <<child_pc, flags, kernel, cover, events, tcase, wstatus, notTestcase>>

\* main.rs:333-346: get_next_testcase wrote the image, or the loop ends
NextTestcase ==
    /\ ppc = "next"
    /\ \/ /\ tcase < MaxTestcases
          /\ tcase' = tcase + 1
          /\ events' = <<Ev("parent", "write_image")>>
          /\ ppc' = "reset"
       \/ /\ ppc' = "return"
          /\ UNCHANGED <<tcase, events>>
    /\ UNCHANGED <<child_pc, flags, kernel, cover, kmsg, wstatus, notTestcase>>

\* main.rs:349: reset_btrfs_devices()?
ResetDevices ==
    /\ ppc = "reset"
    /\ \E ok \in BOOLEAN :
          /\ ppc' = IF ok THEN "fork" ELSE "return"
          /\ events' = IF ok THEN Append(events, Ev("parent", "reset")) ELSE events
    /\ UNCHANGED <<child_pc, flags, kernel, cover, kmsg, tcase, wstatus, notTestcase>>

\* main.rs:266: fork()?; the child starts with a copy of the parent's memory
Fork ==
    /\ ppc = "fork"
    /\ \E ok \in BOOLEAN :
          IF ok
          THEN /\ ppc' = "wait"
               /\ child_pc' = "enable"
               /\ flags' = [flags EXCEPT !.child = flags.parent]
               /\ wstatus' = [how |-> "none", verdict |-> "none"]
               /\ events' = Append(events, Ev("parent", "fork"))
          ELSE /\ ppc' = "return"
               /\ UNCHANGED <<child_pc, flags, wstatus, events>>
    /\ UNCHANGED <<kernel, cover, kmsg, tcase, notTestcase>>

\* main.rs:268: waitpid(child, None)?
Waitpid ==
    /\ ppc = "wait"
    /\ Reaped
    /\ \E ok \in BOOLEAN :
          /\ ppc' = IF ok THEN "scan" ELSE "return"
          /\ events' = IF ok THEN Append(events, Ev("parent", "waitpid")) ELSE events
    /\ child_pc' = IF child_pc = "dead" THEN "none" ELSE child_pc
    /\ UNCHANGED <<flags, kernel, cover, kmsg, tcase, wstatus, notTestcase>>

\* main.rs:270-284: kmsg_contains_bug(kmsg)?, then the match on the status
KmsgScan ==
    /\ ppc = "scan"
    /\ \E errAt \in 0..2 :
          /\ kmsg' = kmsg_scan(kmsg, errAt, tcase)
          /\ IF ScanFailed(kmsg, errAt)
             THEN /\ ppc' = "return"
                  /\ UNCHANGED <<wstatus, events>>
             ELSE /\ events' = Append(events, Ev("parent", "scan"))
                  /\ wstatus' = [wstatus EXCEPT
                                    !.verdict = Verdict(ScanFound(kmsg, errAt), wstatus.how)]
                  /\ ppc' = IF wstatus'.verdict = "Err" THEN "return" ELSE "fold"
    /\ UNCHANGED <<child_pc, flags, kernel, cover, tcase, notTestcase>>

\* main.rs:356-384: load word 0, then the words 1..size, each folded into
\* the bitmap
FoldCoverage ==
    /\ ppc = "fold"
    /\ events' = events \o
                 <<Ev("parent", "read_kcov"),
                   [proc |-> "parent", op |-> "fold", ok |-> TRUE,
                    pcs |-> [i \in 1..cover.count |-> cover.pcs[i]]]>>
    /\ ppc' = "report"
    /\ UNCHANGED <<child_pc, flags, kernel, cover, kmsg, tcase, wstatus, notTestcase>>

\* main.rs:387: forkserver.report(status)?
ReportRun ==
    /\ ppc = "report"
    /\ \E ok \in BOOLEAN :
          /\ ppc' = IF ok THEN "next" ELSE "return"
          /\ events' = IF ok THEN Append(events, Ev("parent", "report")) ELSE events
    /\ UNCHANGED <<child_pc, flags, kernel, cover, kmsg, tcase, wstatus, notTestcase>>

\* _main returns (main.rs:392, or a `?`): its Mounter is dropped
MainReturn ==
    /\ ppc = "return"
    /\ child_pc \in {"none", "dead"}
    /\ \E kd \in BOOLEAN :
          /\ kernel' = KernelAfter(Mounter_drop(View("parent"), kd))
          /\ events' = events \o Issued("parent", Mounter_drop(View("parent"), kd).ops)
    /\ ppc' = "done"
    /\ UNCHANGED <<child_pc, flags, cover, kmsg, tcase, wstatus, notTestcase>>

\* ---- the child ----

\* Kcov::enable (kcov.rs:84-100) and main.rs:289-295: store 0, the ioctl
\* (PCs traced on its way back to user space), store 0 again; on an error
\* the child exits with EXIT_BAD
KcovEnable ==
    /\ child_pc = "enable"
    /\ \E ok \in BOOLEAN, n \in 0..1 :
          IF ok
          THEN /\ cover' = [kcov_trace([cover EXCEPT !.count = 0], n, tcase)
                               EXCEPT !.count = 0]
               /\ kernel' = [kernel EXCEPT !.tracing = TRUE]
               /\ child_pc' = "work"
               /\ events' = Append(events, Ev("child", "enable"))
               /\ UNCHANGED wstatus
          ELSE /\ cover' = [cover EXCEPT !.count = 0]
               /\ child_pc' = OnEnableErr
               /\ wstatus' = [wstatus EXCEPT !.how = IF OnEnableErr = "dead"
                                                    THEN "exit89" ELSE @]
               /\ events' = IF OnEnableErr = "dead"
                            THEN Append(events, Ev("child", "exit"))
                            ELSE events \o <<Ev("child", "scan"), Ev("child", "fold"),
                                             Ev("child", "report")>>
               /\ UNCHANGED kernel
    /\ UNCHANGED <<ppc, flags, kmsg, tcase, notTestcase>>

\* work (main.rs:242-251): mounter.mount(image, "/mnt/btrfs") in the child;
\* the kernel traces PCs while the child is in its system calls
ChildMount ==
    /\ child_pc = "work"
    /\ \E ka \in BOOLEAN, kp \in BOOLEAN, km \in BOOLEAN, kd \in BOOLEAN,
          n \in 0..(COVER_SIZE - 1) :
          LET m == Mounter_mount(View("child"), ka, kp, km, kd) IN
          /\ flags' = [flags EXCEPT !.child = m.attached]
          /\ kernel' = KernelAfter(m)
          /\ cover' = Traced(n)
          /\ events' = events \o Issued("child", m.ops)
          /\ child_pc' = IF m.handle THEN "drop" ELSE "exit"
    /\ UNCHANGED <<ppc, kmsg, tcase, wstatus, notTestcase>>

\* mount(2) never returns: the kernel hits a BUG() and kills the task
ChildOops ==
    /\ child_pc = "work"
    /\ ~flags.child
    /\ LET m == store(attach_file(View("child"), TRUE), TRUE) IN
          /\ LastOk(attach_file(View("child"), TRUE))
          /\ flags' = [flags EXCEPT !.child = TRUE]
          /\ kernel' = [KernelAfter(m) EXCEPT !.tracing = FALSE]
          /\ events' = events \o Issued("child", m.ops)
    /\ \E n \in 0..1 : cover' = Traced(n)
    /\ kmsg' = Logged(TRUE)
    /\ ChildEnds("signal")
    /\ UNCHANGED <<ppc, tcase, notTestcase>>

\* the end of work (main.rs:251): `r` goes out of scope and the Mount is
\* dropped in the child
ChildMountDrop ==
    /\ child_pc = "drop"
    /\ \E ku \in BOOLEAN, kd \in BOOLEAN :
          LET m == Mount_drop([View("child") EXCEPT !.handle = TRUE], ku, kd) IN
          /\ flags' = [flags EXCEPT !.child = m.attached]
          /\ kernel' = KernelAfter(m)
          /\ events' = events \o Issued("child", m.ops)
          /\ child_pc' = IF m.ret = "Panic" THEN "unwind" ELSE "exit"
    /\ UNCHANGED <<ppc, cover, kmsg, tcase, wstatus, notTestcase>>

\* main.rs:300: exit(EXIT_OK); no destructor runs
ChildExit ==
    /\ child_pc = "exit"
    /\ ChildEnds("exit88")
    /\ kernel' = [kernel EXCEPT !.tracing = FALSE]
    /\ events' = Append(events, Ev("child", "exit"))
    /\ UNCHANGED <<ppc, flags, cover, kmsg, tcase, notTestcase>>

\* The panic of Mount's drop in the child: the unwinding drops the child's
\* copy of _main's Mounter and the process ends with status 101; a second
\* panic, or a panic = "abort" build, ends it with SIGABRT.
ChildUnwind ==
    /\ child_pc = "unwind"
    /\ \/ \E kd \in BOOLEAN :
             LET m == Mounter_drop(View("child"), kd) IN
             /\ kernel' = [KernelAfter(m) EXCEPT !.tracing = FALSE]
             /\ events' = events \o Issued("child", m.ops)
             /\ ChildEnds(IF m.ret = "DropPanic" THEN "signal" ELSE "exit101")
       \/ /\ kernel' = [kernel EXCEPT !.tracing = FALSE]
          /\ ChildEnds("signal")
          /\ UNCHANGED events
    /\ UNCHANGED <<ppc, flags, cover, kmsg, tcase, notTestcase>>

\* a signal ends the child, wherever it is
Killed ==
    /\ child_pc \in Alive
    /\ ChildEnds("signal")
    /\ kernel' = [kernel EXCEPT !.tracing = FALSE]
    /\ UNCHANGED <<ppc, flags, cover, kmsg, events, tcase, notTestcase>>

\* the kernel logs a line; it does so whenever it likes
KernelLogs ==
    /\ Len(kmsg.log) < MaxLog
    /\ ppc # "done"
    /\ \E bug \in BOOLEAN : kmsg' = Logged(bug)
    /\ UNCHANGED <<ppc, child_pc, flags, kernel, cover, events, tcase, wstatus,
                   notTestcase>>

TestcaseInit ==
    /\ ppc = "open_kmsg"
    /\ child_pc = "none"
    /\ flags = [parent |-> FALSE, child |-> FALSE]
    /\ kernel = [loop |-> FALSE, mounted |-> FALSE, tracing |-> FALSE]
    /\ cover = [count |-> 0, pcs |-> [i \in 1..(COVER_SIZE - 1) |-> 0]]
    /\ kmsg = [log |-> <<>>, pos |-> 0]
    /\ events = <<>>
    /\ tcase = 0
    /\ wstatus = [how |-> "none", verdict |-> "none"]

TestcaseNext ==
    \/ OpenKmsg \/ NextTestcase \/ ResetDevices \/ Fork \/ Waitpid \/ KmsgScan
    \/ FoldCoverage \/ ReportRun \/ MainReturn
    \/ KcovEnable \/ ChildMount \/ ChildOops \/ ChildMountDrop \/ ChildExit
    \/ ChildUnwind \/ Killed \/ KernelLogs

InitTestcase ==
    TestcaseInit /\ CtcInit /\ RunnerIdle /\ CodecIdle /\ MutatorIdle /\ FoldIdle
    /\ MounterIdle

SpecTestcase == InitTestcase /\ [][TestcaseNext]_vars

\* the calls on the loop device, the mount and the attached flag
MountOps == {"attach", "mount", "unmount", "detach", "set_attached", "clear_attached"}

\* what the claim says: attach and detach come from the parent only
C22_OnlyParentAttaches ==
    \A i \in DOMAIN events :
        events[i].op \in {"attach", "detach"} => events[i].proc = "parent"

\* C22: every attach_file and every detach of the loop device (and every
\* mount, unmount and store to the attached flag) is issued by the forked
\* child, in which work() and the drop of its Mount run; the parent issues
\* none, and the flag in the parent's memory is never set.
C22_OnlyChildAttaches ==
    /\ \A i \in DOMAIN events :
          events[i].op \in MountOps => events[i].proc = "child"
    /\ ppc # "off" => ~flags.parent

\* a child attached, mounted, unmounted and detached, and the parent has it reaped
C22_Witness ==
    /\ ppc = "scan"
    /\ \E i \in DOMAIN events, j \in DOMAIN events :
          /\ i < j
          /\ events[i] = [proc |-> "child", op |-> "attach", ok |-> TRUE]
          /\ events[j] = [proc |-> "child", op |-> "detach", ok |-> TRUE]

\* the place of an event in a testcase
Rank(e) ==
    IF e.proc = "child" THEN 4
    ELSE CASE e.op = "write_image" -> 1
           [] e.op = "reset" -> 2
           [] e.op = "fork" -> 3
           [] e.op = "waitpid" -> 5
           [] e.op = "scan" -> 6
           [] e.op = "read_kcov" -> 7
           [] e.op = "fold" -> 8
           [] e.op = "report" -> 9
           [] OTHER -> 10

\* the parent's steps come one after the other, none skipped, with the
\* child's events between fork and waitpid
ParentInOrder ==
    /\ \A i \in DOMAIN events, j \in DOMAIN events :
          i < j => /\ Rank(events[i]) <= Rank(events[j])
                   /\ (Rank(events[i]) = Rank(events[j]) => events[i].proc = "child")
    /\ \A i \in DOMAIN events :
          Rank(events[i]) \notin {1, 4}
             => \E j \in 1..(i - 1) :
                   Rank(events[j]) = (IF Rank(events[i]) = 5 THEN 3 ELSE Rank(events[i]) - 1)

\* the child enables kcov before it touches the loop device, and exit is
\* the last thing it does
ChildInOrder ==
    \A i \in DOMAIN events :
        events[i].proc = "child" =>
           /\ (events[i].op \in MountOps
                 => \E j \in 1..(i - 1) : events[j] = Ev("child", "enable"))
           /\ (events[i].op = "exit"
                 => \A j \in DOMAIN events : j > i => events[j].proc = "parent")
           /\ (events[i].op = "unmount"
                 => \E j \in 1..(i - 1) : events[j].op = "mount" /\ events[j].ok)

\* while the child runs the parent sits in waitpid
ParentWaits ==
    /\ child_pc \in Alive => ppc = "wait"
    /\ ppc \in {"scan", "fold", "report"} => child_pc = "none"

\* the kcov buffer changes only while a child runs: by that child's stores
\* and by the kernel tracing it; the parent's steps leave it alone
KcovWrittenForChild == cover' # cover => child_pc \in Alive /\ ppc' = ppc

\* C23: for each testcase the steps are, in this order: write the image,
\* the forget-dev reset, fork, the child (enable kcov, mount, exit),
\* waitpid, the kmsg scan, the read of the kcov count and PCs, the fold,
\* the report; between fork and the return of waitpid the parent reads no
\* kcov word and writes no bitmap byte, so that kcov data is written for
\* the child only and read by the parent only.
C23_PerTestcaseOrder ==
    /\ [](ParentInOrder /\ ChildInOrder /\ ParentWaits)
    /\ [][KcovWrittenForChild]_vars

\* the second testcase, reported, whose child mounted the image and exited
C23_Witness ==
    /\ tcase = 2
    /\ ppc = "next"
    /\ events[Len(events)] = Ev("parent", "report")
    /\ \E i \in DOMAIN events : events[i] = [proc |-> "child", op |-> "mount", ok |-> TRUE]
    /\ \E i \in DOMAIN events : events[i] = Ev("child", "exit")

\* the loop's steps are the parent's
LoopIsParents ==
    \A i \in DOMAIN events :
        events[i].op \in {"write_image", "reset", "fork", "waitpid", "scan",
                          "read_kcov", "fold", "report"}
           => events[i].proc = "parent"

\* a child is where fork_work_and_wait's child branch can be, and once it
\* has ended it has an exit status of 88, 89 or the panic's 101, or a signal
ChildStaysInBranch ==
    /\ child_pc \in {"none", "dead"} \cup Alive
    /\ child_pc = "dead" => wstatus.how \in {"exit88", "exit89", "exit101", "signal"}

\* a running child runs on or ends; only waitpid takes it away
ChildEndsInBranch ==
    /\ child_pc \in Alive => child_pc' \in Alive \cup {"dead"}
    /\ child_pc = "dead" => child_pc' \in {"dead", "none"}
    /\ child_pc = "dead" /\ child_pc' = "none" => ppc = "wait" /\ ppc' # "wait"

\* C24: the forked child always ends inside fork_work_and_wait - exit(88),
\* exit(89) or an abnormal end (a signal, a panic) - and never runs the
\* loop's code; the bitmap and the forkserver descriptors are written by
\* the parent only.
C24_ChildNeverReturns ==
    /\ [](LoopIsParents /\ ChildStaysInBranch)
    /\ [][ChildEndsInBranch]_vars

\* a child whose kcov.enable() failed: it left with exit(89)
C24_Witness ==
    /\ child_pc = "dead"
    /\ wstatus.how = "exit89"
    /\ events[Len(events)] = Ev("child", "exit")

\* C28: the PCs the parent folds for a testcase were traced in that
\* testcase's child; no PC counted in an earlier testcase is folded again.
C28_FoldsOnlyFreshPCs ==
    \A i \in DOMAIN events :
        events[i].op = "fold"
           => \A n \in DOMAIN events[i].pcs : events[i].pcs[n] = tcase

\* a scan examines an entry at most once, never one logged before the open
\* and never one logged while the child of another testcase ran
ScansAttributed ==
    \A i \in DOMAIN kmsg.log :
        /\ Cardinality(kmsg.log[i].scans) <= 1
        /\ kmsg.log[i].window = "old" => kmsg.log[i].scans = {}
        /\ kmsg.log[i].window = "child" => kmsg.log[i].scans \subseteq {kmsg.log[i].tcase}
        /\ kmsg.log[i].scans # {} => i <= kmsg.pos

\* a scan that returns has read to the end of the log: every entry logged
\* since the open has been examined
ScanConsumesAll ==
    ppc = "scan" /\ Len(events') > Len(events)
        => /\ kmsg'.pos = Len(kmsg.log)
           /\ \A i \in DOMAIN kmsg.log :
                 kmsg.log[i].window # "old" => Cardinality(kmsg'.log[i].scans) = 1

\* C29: /dev/kmsg is opened once and positioned at its end; every scan
\* reads all the entries there are at that time, also after a match; so
\* each entry is examined by one scan only, and a line logged while the
\* child of testcase k ran is not counted for testcase k+1.
C29_KmsgAttribution == []ScansAttributed /\ [][ScanConsumesAll]_vars

\* a scan that went on after a match: two entries of one child, the first
\* a BUG line, both examined by that testcase's scan; an older entry ignored
C29_Witness ==
    \E i \in DOMAIN kmsg.log, j \in DOMAIN kmsg.log :
        /\ i < j
        /\ kmsg.log[i].bug /\ kmsg.log[i].window = "child"
        /\ kmsg.log[j].window = "child"
        /\ kmsg.log[i].scans = {tcase} /\ kmsg.log[j].scans = {tcase}

\* ---- the edge hash, as claimed (checked under SpecFold) ----

\* prev when PC i of the buffer is folded: 0xDEAD for the first PC of a
\* testcase, the masked PC before it shifted right by one for the others
ClaimedPrev(cov, i) ==
    IF i = 0 THEN 57005 ELSE (cov[i + 1] % 65536) \div 2

\* the byte PC i of the buffer increments
ClaimedIndex(cov, i) == BitXor(cov[i + 2] % 65536, ClaimedPrev(cov, i))

\* how many of the buffer's n PCs increment byte c
ClaimedHits(c, cov) ==
    Cardinality({i \in 0..(cov[1] - 1) : ClaimedIndex(cov, i) = c})

RECURSIVE SumHits(_, _)
SumHits(cells, cov) ==
    IF cells = {} THEN 0
    ELSE LET c == CHOOSE x \in cells : TRUE
         IN ClaimedHits(c, cov) + SumHits(cells \ {c}, cov)

EdgeHashFold ==
    /\ \A i \in 0..(kcov'[1] - 1) : ClaimedIndex(kcov', i) \in DOMAIN shmem
    /\ SumHits(DOMAIN shmem, kcov') = kcov'[1]
    /\ \A c \in DOMAIN shmem :
          shmem'[c] = IF shmem[c] + ClaimedHits(c, kcov') > 255
                      THEN 255
                      ELSE shmem[c] + ClaimedHits(c, kcov')

\* C27: the fold of a testcase's PCs p_0..p_(n-1) starts from prev = 0xDEAD,
\* increments bitmap[(p_i & 0xFFFF) ^ prev] once for each p_i and then sets
\* prev = (p_i & 0xFFFF) >> 1: n increments per testcase (an increment of a
\* byte at 255 leaves it there), with prev set to 0xDEAD again for every
\* testcase.
C27_EdgeHash == [][EdgeHashFold]_vars

\* the second testcase folded, with two PCs on two bytes that were below 255
C27_Witness ==
    /\ folds = MaxFolds
    /\ kcov[1] = 2
    /\ ClaimedIndex(kcov, 0) # ClaimedIndex(kcov, 1)
    /\ shmem[ClaimedIndex(kcov, 0)] \in 1..2
    /\ shmem[ClaimedIndex(kcov, 1)] \in 1..2

\* ---- the ring of persisted inputs (checked under SpecRunner) ----

\* the inputs persisted so far
Persisted == ring.persisted

\* the last input persisted to file j
LastTo(j) ==
    Persisted[CHOOSE i \in DOMAIN Persisted :
                 /\ Persisted[i].file = j
                 /\ \A n \in DOMAIN Persisted : Persisted[n].file = j => n <= i]

Min(a, b) == IF a < b THEN a ELSE b

\* the i-th input persisted had counter i - 1 and went to file (i - 1) mod N
RingIndexed ==
    \A i \in DOMAIN Persisted :
        /\ Persisted[i].c = i - 1
        /\ Persisted[i].file = (i - 1) % env.last_n

\* the counter is the number of testcases executed and reported: every
\* input persisted before the current one was counted
CounterFollows ==
    env.current_dir /\ pc \notin {"off", "forkserver_new", "setup"}
        => count \in {Len(Persisted), Len(Persisted) - 1} /\ count >= 0

\* the directory holds the last min(k, N) inputs persisted, each in its file
RingHoldsLast ==
    /\ Cardinality(DOMAIN ring.files) = Min(Len(Persisted), env.last_n)
    /\ \A j \in DOMAIN ring.files : ring.files[j] = LastTo(j).buf
    /\ \A i \in DOMAIN Persisted :
          i > Len(Persisted) - env.last_n
             => ring.files[Persisted[i].file] = Persisted[i].buf

\* the raw input is in its file before it is deserialized and decompressed
PersistedBeforeDecode ==
    \A i \in DOMAIN trace :
        env.current_dir /\ trace[i] = Effect("decompress", 0)
           => /\ Len(Persisted) > 0
              /\ Persisted[Len(Persisted)].buf = input
              /\ ring.files[(Len(Persisted) - 1) % env.last_n] = input
              /\ \E j \in 1..(i - 1) :
                    trace[j] = Effect("persist", (Len(Persisted) - 1) % env.last_n)

\* the counter goes up by one when an executed testcase has been reported,
\* and at no other step; a known crash leaves it alone
CounterSteps ==
    /\ count' \in {count, count + 1}
    /\ count' = count + 1 <=> pc = "report" /\ pc' = "new_run"
    /\ pc = "report_known" => count' = count /\ ring' = ring

\* a file is overwritten by the input persisted N testcases after the one
\* it held
OverwrittenByNth ==
    Len(ring'.persisted) > Len(Persisted)
        => LET e == ring'.persisted[Len(ring'.persisted)] IN
           /\ \A j \in DOMAIN ring.files : j # e.file => ring'.files[j] = ring.files[j]
           /\ e.file \in DOMAIN ring.files => e.c = LastTo(e.file).c + env.last_n

----------------------------------------------------------------------------
(***************************************************************************)
(* The log tree and what the walker records, checked under SpecCodec.      *)
(***************************************************************************)

\* the superblock extent compress records before it walks (btrfs.rs:49-56)
SuperblockRecorded ==
    PushExtent(DefaultCompressed, BTRFS_SUPERBLOCK_OFFSET,
               Slice(img, BTRFS_SUPERBLOCK_OFFSET,
                     BTRFS_SUPERBLOCK_OFFSET + SizeOf.BtrfsSuperblock))

\* Btrfs::new returned a Btrfs for img and the walk of the root tree and of
\* the trees its ROOT_ITEMs name returns Ok
RootTreeWalks ==
    /\ cpc \in {"compressed", "done", "failed"}
    /\ parse_superblock(img) = "ok"
    /\ parse_root_tree(img, chunk_tree_cache, SuperblockRecorded).kind = "ok"

\* the image mkfs wrote without a log tree: superblock.log_root is 0
ZeroLogRoot == img = orig /\ Sb(img, "log_root") = 0

\* C31 (as claimed): for an otherwise well-formed image whose superblock
\* log_root is 0, compress succeeds and records no extent for a log tree: the
\* extents are those of the superblock and of the walk from the root tree.
C31_ZeroLogRootIsAbsent ==
    (ZeroLogRoot /\ RootTreeWalks) =>
        /\ ~CompressFailed
        /\ CompressorBuilt =>
              compressed.metadata
                  = parse_root_tree(img, chunk_tree_cache, SuperblockRecorded).c.metadata


\* the physical offset the chunk-tree cache gives a tree block's address
PhysicalOf(logical) == offset(chunk_tree_cache, logical).val

\* header fields of the tree block at a physical offset of img
LevelAt(physical) == At(img, physical + HeaderField.level)
NritemsAt(physical) == At(img, physical + HeaderField.nritems)

\* the blocks the key pointers of an internal node name
ChildrenOf(physical) ==
    IF LevelAt(physical) = 0 THEN {}
    ELSE {PhysicalOf(At(img, physical + SizeOf.BtrfsHeader + k * SizeOf.BtrfsKeyPtr
                             + KeyPtrField.blockptr)) :
            k \in 0..(NritemsAt(physical) - 1)}

\* the roots of the trees the ROOT_ITEMs of a leaf name
RootItemsOf(leaf) ==
    {PhysicalOf(At(img, leaf + SizeOf.BtrfsHeader
                        + At(img, leaf + SizeOf.BtrfsHeader + k * SizeOf.BtrfsItem
                                  + ItemField.offset)
                        + RootItemField.bytenr)) :
        k \in {j \in 0..(NritemsAt(leaf) - 1) :
                  At(img, leaf + SizeOf.BtrfsHeader + j * SizeOf.BtrfsItem
                          + ItemField.key + KeyField.ty) = BTRFS_ROOT_ITEM_KEY}}

\* the blocks of `nodes` and every block at most n key pointers below them
RECURSIVE Below(_, _)
Below(nodes, n) ==
    IF n = 0 THEN nodes
    ELSE Below(nodes \cup UNION {ChildrenOf(x) : x \in nodes}, n - 1)

\* every tree block compress visits: the root-tree leaf, the trees its
\* ROOT_ITEMs name and the log tree
VisitedNodes ==
    LET root == PhysicalOf(Sb(img, "root")) IN
    Below({root} \cup RootItemsOf(root) \cup {PhysicalOf(Sb(img, "log_root"))},
          MaxWalkDepth)

\* the header of the block and its item or key-pointer records
RecordedSize(physical) ==
    SizeOf.BtrfsHeader
        + NritemsAt(physical)
            * (IF LevelAt(physical) = 0 THEN SizeOf.BtrfsItem ELSE SizeOf.BtrfsKeyPtr)

\* C32 (as claimed): the output of compress holds the superblock bytes at
\* the superblock offset and, for every node visited from the root-tree
\* leaf, from each tree a ROOT_ITEM names and from the log tree, one extent at
\* the node's physical offset whose size is the header plus nritems item
\* records (leaf) or key-pointer records (internal node), children of
\* internal nodes included; nothing else (no item payload) is recorded, and
\* every recorded extent has needs_csum_fixup = true.
C32_WhatCompressorRecords ==
    (CompressorBuilt /\ scribbles = <<>>) =>
        /\ compressed.metadata # <<>>
        /\ compressed.metadata[1].offset = BTRFS_SUPERBLOCK_OFFSET
        /\ compressed.metadata[1].size = SizeOf.BtrfsSuperblock
        /\ Slice(compressed.data, 0, SizeOf.BtrfsSuperblock)
              = Slice(img, BTRFS_SUPERBLOCK_OFFSET,
                      BTRFS_SUPERBLOCK_OFFSET + SizeOf.BtrfsSuperblock)
        /\ {compressed.metadata[k].offset : k \in 2..Len(compressed.metadata)}
              = VisitedNodes
        /\ \A k \in 2..Len(compressed.metadata) :
              compressed.metadata[k].size = RecordedSize(compressed.metadata[k].offset)
        /\ \A k \in 1..Len(compressed.metadata) :
              compressed.metadata[k].needs_csum_fixup

\* the part of C32 the walker does keep: the offsets and the sizes
C32_OffsetsAndSizes ==
    (CompressorBuilt /\ scribbles = <<>>) =>
        /\ {compressed.metadata[k].offset : k \in 2..Len(compressed.metadata)}
              = VisitedNodes
        /\ \A k \in 2..Len(compressed.metadata) :
              compressed.metadata[k].size = RecordedSize(compressed.metadata[k].offset)


----------------------------------------------------------------------------
(***************************************************************************)
(* Parse errors of compress, checked under SpecCodec.                      *)
(***************************************************************************)

\* the n-th tree block of the metadata chunk in img
BlockAt(n) == Mkfs.meta_physical + n * Mkfs.node_size

\* the key pointers a block of node_size cells can hold
KeyPtrsOf(n) ==
    LET nritems == At(img, BlockAt(n) + HeaderField.nritems)
        room == (Mkfs.node_size - SizeOf.BtrfsHeader) \div SizeOf.BtrfsKeyPtr
    IN 0..((IF nritems < room THEN nritems ELSE room) - 1)

\* the blocks of the metadata chunk the key pointers of the n-th block name
Kids(n) ==
    IF At(img, BlockAt(n) + HeaderField.level) = 0 THEN {}
    ELSE {j \in 0..(Mkfs.meta_nodes - 1) :
             \E k \in KeyPtrsOf(n) :
                 At(img, BlockAt(n) + SizeOf.BtrfsHeader + k * SizeOf.BtrfsKeyPtr
                         + KeyPtrField.blockptr) = MetaBlock(j)}

\* the blocks reached from `blocks` by at most n key pointers
RECURSIVE Descendants(_, _)
Descendants(blocks, n) ==
    IF n = 0 THEN blocks
    ELSE Descendants(blocks \cup UNION {Kids(x) : x \in blocks}, n - 1)

\* no tree block of img is below itself
Acyclic ==
    Len(img) = Mkfs.image_len =>
        \A n \in 0..(Mkfs.meta_nodes - 1) : n \notin Descendants(Kids(n), Mkfs.meta_nodes)

\* img cannot hold a superblock at the superblock offset
TooShort == Len(img) < BTRFS_SUPERBLOCK_OFFSET + SizeOf.BtrfsSuperblock

WrongMagic == ~TooShort /\ SbMagic(img) # BTRFS_SUPERBLOCK_MAGIC

\* the first entry of sys_chunk_array: its key and its chunk item
FirstEntry == BTRFS_SUPERBLOCK_OFFSET + SuperblockField.sys_chunk_array

\* sys_chunk_array_size ends inside the first entry's key
ShortKeyRead ==
    /\ ~TooShort /\ ~WrongMagic
    /\ Sb(img, "sys_chunk_array_size") > 0
    /\ Sb(img, "sys_chunk_array_size") < SizeOf.BtrfsKey

\* the first entry holds a whole key whose type is not CHUNK_ITEM
BadKeyType ==
    /\ ~TooShort /\ ~WrongMagic
    /\ Sb(img, "sys_chunk_array_size") >= SizeOf.BtrfsKey
    /\ At(img, FirstEntry + KeyField.ty) # 228

\* sys_chunk_array_size ends inside the first entry's chunk item or before
\* the last of its stripes
ShortChunkRead ==
    /\ ~TooShort /\ ~WrongMagic
    /\ Sb(img, "sys_chunk_array_size") >= SizeOf.BtrfsKey
    /\ At(img, FirstEntry + KeyField.ty) = 228
    /\ \/ Sb(img, "sys_chunk_array_size") < SizeOf.BtrfsKey + SizeOf.BtrfsChunk
       \/ /\ At(img, FirstEntry + SizeOf.BtrfsKey + ChunkField.num_stripes) >= 1
          /\ Sb(img, "sys_chunk_array_size")
                < SizeOf.BtrfsKey + SizeOf.BtrfsChunk
                    + SizeOf.BtrfsStripe
                        * (At(img, FirstEntry + SizeOf.BtrfsKey + ChunkField.num_stripes) - 1)

\* an address inside one of the two chunks mkfs wrote
InAChunk(a) ==
    \/ Mkfs.sys_logical <= a /\ a < Mkfs.sys_logical + Mkfs.node_size
    \/ /\ Mkfs.meta_logical <= a
       /\ a < Mkfs.meta_logical + Mkfs.meta_nodes * Mkfs.node_size

\* the level of the root tree's root is not 0
RootNotLeaf ==
    /\ ~TooShort /\ ~WrongMagic /\ ~ShortKeyRead /\ ~BadKeyType /\ ~ShortChunkRead
    /\ Sb(img, "root") = MetaBlock(0)
    /\ At(img, Mkfs.meta_physical + HeaderField.level) # 0

\* superblock.root or superblock.log_root is an address of no chunk, in an
\* image whose walk gets as far as that address
UnmappedTree ==
    /\ ~TooShort /\ ~WrongMagic /\ ~ShortKeyRead /\ ~BadKeyType /\ ~ShortChunkRead
    /\ Acyclic
    /\ ~InAChunk(Sb(img, "root")) \/ ~InAChunk(Sb(img, "log_root"))

\* compress(img) is running or has returned; no compressed image was read
\* from a file
Compressing == source # "file"

\* C33: an image too short for a superblock, a wrong superblock magic, a
\* sys_chunk_array entry whose key type is not 228, a short key or chunk item
\* read, a root-tree root whose level is not 0, and a tree address no chunk
\* maps each make compress return an error: compress never returns a
\* compressed image for such an input, it ends with Err and not with a
\* panic, and it ends no later than the step that meets the damage.
C33_ParseErrorsAreErrors ==
    Compressing =>
        /\ (TooShort \/ WrongMagic) => cpc \in {"start", "failed"}
        /\ (ShortKeyRead \/ BadKeyType \/ ShortChunkRead) =>
               cpc \in {"start", "bootstrap", "failed"}
        /\ (RootNotLeaf \/ UnmappedTree) =>
               cpc \in {"start", "bootstrap", "read_chunk_tree", "compress", "failed"}
        /\ (TooShort \/ WrongMagic \/ ShortKeyRead \/ BadKeyType \/ ShortChunkRead
               \/ RootNotLeaf \/ UnmappedTree) =>
               /\ cpc = "failed" => (cres = "err" /\ ~panicked)
               /\ compressed = DefaultCompressed
               /\ decompressed = NoOutput

\* compress got as far as the root tree of an image whose root-tree root is
\* not a leaf, every tree address mapped, and returned an error
C33_Witness ==
    /\ Compressing /\ RootNotLeaf /\ ~UnmappedTree
    /\ chunk_tree_cache # <<>>
    /\ cpc = "failed" /\ cres = "err"

\* the other parse errors happen: each is met by some input and ends in Err
C33_WitnessBootstrap == Compressing /\ ShortChunkRead /\ cpc = "failed" /\ cres = "err"


----------------------------------------------------------------------------
(***************************************************************************)
(* The decoder on a short image, checked under SpecCodec.                  *)
(***************************************************************************)

\* every image decode_all can give for the base is too short to hold the
\* primary superblock
ShortReconstructed ==
    \A d \in decode_all(compressed.base) :
        d.ok => Len(d.image) < BTRFS_SUPERBLOCK_OFFSET + BTRFS_SUPERBLOCK_SIZE

\* C34 (as claimed): for every compressed image whose reconstructed image is
\* shorter than the superblock offset plus the superblock size, decompress
\* returns an error and no image, without panicking, also when an extent's
\* range [offset, offset + size) or its slice of `data` lies beyond the bytes
\* there are.
C34_ShortImageIsError ==
    (cpc = "done" /\ ShortReconstructed) =>
        /\ decompressed = [kind |-> "err", image |-> <<>>]
        /\ ~panicked


----------------------------------------------------------------------------
(***************************************************************************)
(* Forkserver protocol errors, checked under SpecRunner.                   *)
(***************************************************************************)

\* a read of fd 198 or a write of fd 199 that failed or did not transfer
\* exactly 4 bytes
ProtocolError(e) ==
    /\ e.fd \in {198, 199}
    /\ e.n # 4

ProtocolFailed == \E i \in 1..Len(io) : ProtocolError(io[i])

\* once a transfer went wrong it is the last protocol event, _main has
\* returned Err, and the process exits with code 1 only
FatalProtocolError ==
    ProtocolFailed =>
        /\ ProtocolError(io[Len(io)])
        /\ \A i \in 1..(Len(io) - 1) : ~ProtocolError(io[i])
        /\ pc \in {"return", "exited"}
        /\ result = "err"
        /\ pc = "exited" => exit_code = [kind |-> "exit", code |-> 1]

\* after a transfer went wrong no protocol message is written or read and
\* neither new_run() nor report() is called again
SilentAfterError ==
    ProtocolFailed => (io' = io /\ calls' = calls /\ runs' = runs)

\* C35: if a read from fd 198 or a write to fd 199 transfers other than
\* exactly 4 bytes or fails, new(), new_run() or report() returns an error,
\* the runner leaves its loop, writes no further protocol message, and the
\* process exits with code 1.
C35_ProtocolErrorsAreFatal == []FatalProtocolError /\ [][SilentAfterError]_vars

\* report() of the second iteration wrote fewer than 4 bytes, after a
\* first iteration whose transfers were whole, and the process exited with 1
C35_Witness ==
    /\ pc = "exited"
    /\ exit_code = [kind |-> "exit", code |-> 1]
    /\ runs = 2
    /\ io # <<>>
    /\ io[Len(io)].ev = "status" /\ io[Len(io)].run = 2 /\ io[Len(io)].n = 2


----------------------------------------------------------------------------
(***************************************************************************)
(* Bounds of the fold, checked under SpecFold.                             *)
(***************************************************************************)

\* PC values at the edges of the 16-bit mask (the fold keeps the low 16 bits
\* of a PC, so a PC stands for every address with those low bits)
PcSamples == {0, 1, 32767, 32768, 57005, 65535, 65536, 122541, 28502, 2147483647}

\* the values prev_loc takes: 0xDEAD before the first PC, then a PC's low 16
\* bits shifted right by one
PrevSamples == {57005} \cup {(p % 65536) \div 2 : p \in PcSamples}

\* for every PC the index lies in the 64 KiB map, and the next prev_loc is at
\* most 0x7FFF
IndexInsideMap ==
    /\ \A p \in PcSamples : NextPrev(p) \in 0..32767
    /\ \A p \in PcSamples, q \in PrevSamples : Mixed(p, q) \in 0..65535

\* the fold of the buffer a child left writes inside the map and loads the
\* words 1..count of the buffer, which lie inside the buffer when the count
\* is at most COVER_SIZE - 1
FoldInsideBuffers ==
    /\ \A k \in DOMAIN FoldIndexes(kcov', 0, 57005) :
          FoldIndexes(kcov', 0, 57005)[k] \in 0..65535
    /\ fold_reads(kcov', 0) = 1..kcov'[1]
    /\ 0 \notin fold_reads(kcov', 0)
    /\ kcov'[1] <= COVER_SIZE - 1 =>
          \A w \in fold_reads(kcov', 0) : w < COVER_SIZE /\ w + 1 \in DOMAIN kcov'

\* C36: for every PC value the index (PC & 0xFFFF) ^ prev lies in
\* [0, 65535] (prev is 0xDEAD or at most 0x7FFF), so every bitmap access is
\* inside the 64 KiB map; and the fold reads kcov words 1..count only, never
\* word 0 as a PC and never a word past the end of the buffer when the count
\* is at most the buffer's size less one.
C36_FoldStaysInBounds == []IndexInsideMap /\ [][FoldInsideBuffers]_vars

\* a full kcov buffer was folded: its last word was read, and the first PC
\* fell on byte 0 of the map
C36_Witness ==
    /\ folds >= 1
    /\ kcov[1] = COVER_SIZE - 1
    /\ COVER_SIZE - 1 \in fold_reads(kcov, 0)
    /\ FoldIndexes(kcov, 0, 57005)[1] = 0


----------------------------------------------------------------------------
(***************************************************************************)
(* Error returns of Mounter::mount, checked under SpecMounter.             *)
(***************************************************************************)

\* Mounter::mount returned Err after it passed the look at the flag: the
\* attach failed, the loop device's path was unavailable, mount(2) failed
MountReturnedErr == mounter.ret \in {"AttachErr", "PathErr", "MountErr", "DetachErr"}

\* C37 (as claimed): on every error return of Mounter::mount (attach
\* failure, loop-device path unavailable, mount(2) failure) the loop device
\* is left with no backing file and the attached flag is false; while the
\* Mounter lives the flag is true exactly while the device has a backing
\* file attached by this process.
C37_ErrorReturnsLeaveDetached ==
    /\ MountReturnedErr => (~mounter.loop /\ ~mounter.attached)
    /\ mlife = "alive" => (mounter.attached <=> mounter.loop)

\* the error returns that do leave the device detached and the flag false:
\* a failed attach, and a failed mount(2) followed by a successful detach
C37_AttachAndMountErrors ==
    mounter.ret \in {"AttachErr", "MountErr"} => (~mounter.loop /\ ~mounter.attached)


----------------------------------------------------------------------------
(***************************************************************************)
(* The loop device from one testcase to the next, checked under            *)
(* SpecTestcase.                                                           *)
(***************************************************************************)

\* the child of the current testcase has been forked and has done nothing yet
ChildStarts == child_pc = "enable"

\* C38 (as claimed): at the start of every testcase's child the loop device
\* has no backing file attached and the mounter's attached flag, in the
\* parent and in the freshly forked child, is false, also when the previous
\* testcase's child was killed by a signal between its attach and its
\* detach.
C38_LoopDeviceFreeAtChildStart ==
    ChildStarts => (~kernel.loop /\ ~flags.parent /\ ~flags.child)

\* the part of C38 about the flag: the parent never stores to its flag, and
\* the child starts with a copy of it
C38_FlagsFalseAtChildStart ==
    /\ ~flags.parent
    /\ ChildStarts => ~flags.child


----------------------------------------------------------------------------
(***************************************************************************)
(* Termination of the walks. SpecCodecLive is SpecCodec with the steps of  *)
(* compress taken one after the other: compress is sequential code, so a   *)
(* step that can be taken is taken. Btrfs::compress can be taken exactly   *)
(* when cpc = "compress" and taking it leaves that position, so weak       *)
(* fairness of Compress is the condition that the run does not stay there. *)
(***************************************************************************)
SpecCodecLive ==
    /\ SpecCodec
    /\ WF_vars(ParseSuperblock)
    /\ WF_vars(BootstrapChunkTree)
    /\ WF_vars(ReadChunkTree)
    /\ []<>(cpc # "compress")

\* the offsets at which an iteration of the bootstrap loop can complete:
\* the entry's chunk item names at least one stripe
CompletesAt(off) ==
    /\ Len(img) >= BTRFS_SUPERBLOCK_OFFSET + SizeOf.BtrfsSuperblock
    /\ off + SizeOf.BtrfsKey + SizeOf.BtrfsChunk <= BTRFS_SYSTEM_CHUNK_ARRAY_SIZE
    /\ At(img, FirstEntry + off + SizeOf.BtrfsKey + ChunkField.num_stripes) >= 1

\* an iteration of the bootstrap loop moves the offset by a key and a chunk
\* item at least
BootstrapAdvances ==
    \A off \in 0..BTRFS_SYSTEM_CHUNK_ARRAY_SIZE :
        CompletesAt(off) =>
            bootstrap_next(img, off) >= off + SizeOf.BtrfsKey + SizeOf.BtrfsChunk

\* compress on an image without a cycle ends by returning: no walk is cut
\* off by the stack
WalksReturn ==
    (Acyclic /\ Compressing /\ cpc = "failed") => (cres = "err" /\ ~panicked)

\* compress(img) returned, or a compressed image was read instead
CompressReturned == cpc \in {"compressed", "done", "failed"}

\* C39: for every image whose trees are finite and acyclic, the
\* sys_chunk_array bootstrap loop, the chunk-tree walk and the generic tree
\* walk all terminate, so compress eventually returns a result or an error;
\* the bootstrap loop advances its offset by at least sizeof(key) +
\* sizeof(chunk) per iteration.
C39_WalksTerminate ==
    /\ []BootstrapAdvances
    /\ []WalksReturn
    /\ (Acyclic /\ cpc = "start") ~> CompressReturned

\* compress returned a compressed image after two iterations of the
\* bootstrap loop and a walk through an internal node
C39_Witness ==
    /\ Acyclic /\ CompressorBuilt
    /\ bootstrap_next(img, 0) < Sb(img, "sys_chunk_array_size")
    /\ \E n \in 0..(Mkfs.meta_nodes - 1) : Kids(n) # {}

\* the image with a cycle: the walk does not return
C39_CyclicWalk == ~Acyclic /\ cpc = "failed" /\ cres = "panic"

====
